---- MODULE Spec2Model ----
(***************************************************************************)
(* Pi-Train-Switching: the LionChief command protocol                      *)
(* (src/python/lionchief.py), the gatttool client BTLEDevice               *)
(* (src/python/bluetooth.py) it drives, the GPIO devices of                *)
(* src/python/train_switch.py, and the device registry of src/app.py.      *)
(*                                                                         *)
(* The files are Python 3 sources (f-strings, annotations), so the         *)
(* Python 3 meaning of every statement is the one modelled.  A Python      *)
(* exception is the string of its class name; "returned" is a normal       *)
(* return.                                                                 *)
(*                                                                         *)
(* The specifications of the module:                                       *)
(*   SpecCmd      LionChief._send_cmd applied to sampled byte lists;       *)
(*   SpecLC       the LionChief handlers (connect, ramp) on one thread,    *)
(*                with the BTLEDevice they own summarised by its flags;    *)
(*   SpecLCFair   SpecLC with a ramp that keeps running;                   *)
(*   SpecSet      LionChief.connect and the setters;                       *)
(*   Spec         one BTLEDevice with its listener thread and one caller   *)
(*                thread, lock by lock and wait by wait;                   *)
(*   SpecMT       the same BTLEDevice called from two threads at once;     *)
(*   SpecStop     a thread that connects and reads, another that stops;    *)
(*   SpecSession  LionChief.connect next to a session that is connected,   *)
(*                written to and stopped;                                  *)
(*   SpecOwn      LionChief.connect, the setters and close, with a         *)
(*                session that ends by itself;                             *)
(*   SpecPoll     one caller thread next to the polling listener, with     *)
(*                the fairness of the locks;                               *)
(*   SpecDev      one device of train_switch.py;                           *)
(*   SpecDevFair  SpecDev with Timers that run;                            *)
(*   SpecApp      the registry and the pin pool of app.py under add,       *)
(*                delete, save and load requests.                          *)
(***************************************************************************)
EXTENDS Integers, Sequences, FiniteSets, TLC

VARIABLES
    \* ---- LionChief (src/python/lionchief.py) ----
    __connected,        \* LionChief.__connected
    current_speed,      \* LionChief.current_speed
    _blue_connection,   \* LionChief._blue_connection: NoDevice or the flags of its BTLEDevice
    lcpc,               \* where the LionChief thread is
    lcOp,               \* the handler last entered
    lcResult,           \* how the handler last entered ended: "running", "returned", or an exception
    max_retries,        \* connect: its argument
    i,                  \* connect: local i
    connected,          \* connect: local connected
    attempts,           \* connect: BTLEDevice constructions started by this call
    reported,           \* logger.error calls of the handler last entered (connect: the per-attempt ones)
    end_speed,          \* ramp: its argument
    speed,              \* ramp: local speed
    rampFrom,           \* ramp: current_speed when the call was entered
    issued,             \* ramp: the arguments of the _set_speed calls of this call, in order
    values,             \* _send_cmd: the list the handler last entered called it with, <<>> if it did not
    writes,             \* the char_write calls made by the handler last entered, in order
    setterArg,          \* the argument of the setter last called
    \* ---- BTLEDevice (src/python/bluetooth.py) ----
    _running,             \* BTLEDevice._running
    _connected,           \* BTLEDevice._connected
    _subscribed_handlers, \* BTLEDevice._subscribed_handlers: handle -> value last recorded, <<>> when absent
    _callbacks,           \* BTLEDevice._callbacks: handle -> set of callbacks
    _lock,                \* BTLEDevice._lock (threading.Lock): "free" or the thread holding it
    _connection_lock,     \* BTLEDevice._connection_lock (threading.RLock): "free" or the thread holding it
    con,                  \* BTLEDevice._con, the gatttool session: "alive", "exited" or "closed"
    out,                  \* the lines gatttool has printed that no expect has consumed yet
    inbox,                \* the command lines sent to gatttool that it has not read yet
    peer,                 \* gatttool's link to the peripheral: "down" or "up"
    lpc,                  \* where the listener thread (run) is
    pc,                   \* where each caller thread is
    call,                 \* per caller thread: the call it last entered and how it went
    sawDisconnect,        \* a wait matched a disconnect line since the last 'Connection successful' match
    written,              \* the peripheral: handle -> value last written to its control handle (handle + 1), <<>> when never
    \* ---- BinaryDevice and its subclasses (src/python/train_switch.py) ----
    cls,                \* the class of the device, "none" where no device is modelled
    logger,             \* BinaryDevice.logger is not None
    __state,            \* BinaryDevice.__state: "None" or the action last recorded
    servo_angle,        \* ServoTrainSwitch.servo.angle: "None" or the angle
    yg_relay,           \* RelayTrainSwitch.yg_relay.value
    br_relay,           \* RelayTrainSwitch.br_relay.value
    relay,              \* OnOff.relay.value
    safe_stop,          \* Disconnect.safe_stop: "None", or the Timer it refers to: "pending", "cancelled", "fired"
    orphans,            \* started Timers safe_stop no longer refers to that have not fired yet
    hwClosed,           \* the gpiozero devices of the object have been closed
    acts,               \* the hardware and Timer calls the handler last entered made, in order
    devOp,              \* the handler last entered
    devArg,             \* action: its argument
    devResult,          \* how the handler last entered ended
    \* ---- the device registry of the web application (src/app.py) ----
    devices,            \* app.devices: the registered devices in insertion order, each with its key pins and class
    pin_pool,           \* app.pin_pool: the pins still available
    profile,            \* the configuration last saved to the profile file, <<>> when none
    appOp,              \* the request last handled
    appResult           \* how the request last handled ended

lcVars == <<__connected, current_speed, _blue_connection, lcpc, lcOp, lcResult,
            max_retries, i, connected, attempts, reported,
            end_speed, speed, rampFrom, issued, values, writes, setterArg>>

btVars == <<_running, _connected, _subscribed_handlers, _callbacks, _lock,
            _connection_lock, con, out, inbox, peer, lpc, pc, call, sawDisconnect,
            written>>

devVars == <<cls, logger, __state, servo_angle, yg_relay, br_relay, relay, safe_stop,
             orphans, hwClosed, acts, devOp, devArg, devResult>>

appVars == <<devices, pin_pool, profile, appOp, appResult>>

vars == <<lcVars, btVars, devVars, appVars>>

----------------------------------------------------------------------------
(* Bounds of the model. *)

\* connect is called with max_retries in 0..MaxRetries
MaxRetries == 3
\* ramp is called with end_speed in 0..MaxSpeed
MaxSpeed == 3
\* _send_cmd is applied to lists of 1..MaxCmdLen sampled bytes
MaxCmdLen == 3

\* a pitch setter is called with an index in -1..MaxArg, another setter with
\* 0, 1 or MaxArg
MaxArg == 5

\* at most MaxOrphans Timers are pending that safe_stop no longer refers to
MaxOrphans == 1

\* an add or delete request names 1..MaxRequestPins pins
MaxRequestPins == 2

\* at most MaxOut unconsumed output lines, at most MaxInbox unread command lines
MaxOut == 2
MaxInbox == 1

\* The byte values the lists are drawn from: the ends of the range, the speed
\* opcode 0x45 and its complement 187, the payload 5 of the worked example and
\* 128 (twice 128 is 256).
ByteSamples == {0, 1, 5, 69, 128, 187, 255}

CmdInputs == UNION {[1..n -> ByteSamples] : n \in 1..MaxCmdLen}

----------------------------------------------------------------------------
(* Pure parts of LionChief._send_cmd. *)

RECURSIVE SumSeq(_)
SumSeq(s) == IF s = <<>> THEN 0 ELSE Head(s) + SumSeq(Tail(s))

\* lionchief.py 67-68: while checksum < 0: checksum += 256
RECURSIVE WhileNegativeAdd256(_)
WhileNegativeAdd256(c) == IF c < 0 THEN WhileNegativeAdd256(c + 256) ELSE c

\* lionchief.py 64-68: checksum = 256; for v in values: checksum -= v; then the loop
Checksum(vals) == WhileNegativeAdd256(256 - SumSeq(vals))

\* lionchief.py 69-70: values.insert(0, 0); values.append(checksum)
Frame(vals) == <<0>> \o vals \o <<Checksum(vals)>>

\* bytes(values) of line 71 raises ValueError unless every element is in range(256)
IsBytes(s) == \A k \in 1..Len(s) : s[k] \in 0..255

----------------------------------------------------------------------------
(* The BTLEDevice a LionChief owns, as the LionChief thread sees it: the     *)
(* flags _connected and _running and whether the gatttool process is alive. *)

NoDevice == [exists |-> FALSE, connected |-> FALSE, running |-> FALSE, alive |-> FALSE]

\* bluetooth.py 66-92: a constructed device; the listener thread is started
NewDevice == [exists |-> TRUE, connected |-> FALSE, running |-> TRUE, alive |-> TRUE]

\* bluetooth.py 179-191: stop() clears _connected only inside `if self._con.isalive()`
StopDevice(dev) ==
    IF dev.alive
    THEN [dev EXCEPT !.running = FALSE, !.alive = FALSE, !.connected = FALSE]
    ELSE [dev EXCEPT !.running = FALSE]

\* How one BTLEDevice(...) followed by .connect() can end (lionchief.py 45-46):
\*   ctor_TIMEOUT   the prompt is not seen within 1 s (bluetooth.py 87)
\*   ok             'Connection successful' is matched, the listener is running
\*   ok_stopped     it is matched after the listener saw a disconnect line and
\*                  cleared _running: `self._thread.run()` on None (line 160)
\*   TIMEOUT        not matched in time: stop(), NotConnectedError (161-165)
\*   EOF            gatttool exits during the wait: pexpect.EOF is not caught
AttemptOutcomes == {"ctor_TIMEOUT", "ok", "ok_stopped", "TIMEOUT", "EOF"}

\* The exception an attempt ends with, "none" for a connection.
AttemptRaises(o) ==
    CASE o = "ok"           -> "none"
      [] o = "ctor_TIMEOUT" -> "TIMEOUT"
      [] o = "ok_stopped"   -> "AttributeError"
      [] o = "TIMEOUT"      -> "NotConnectedError"
      [] o = "EOF"          -> "EOF"

\* an attempt that calls .connect() on the device already held
AttemptDevice_reused(old, o) ==
    CASE o = "ctor_TIMEOUT" -> old
      [] o = "ok"           -> [old EXCEPT !.connected = TRUE]
      [] o = "ok_stopped"   -> [old EXCEPT !.connected = TRUE, !.running = FALSE]
      [] o = "TIMEOUT"      -> StopDevice(old)
      [] o = "EOF"          -> [old EXCEPT !.alive = FALSE]

\* self._blue_connection after the attempt: the constructor's result is
\* assigned before .connect() runs, and not at all when the constructor raises.
AttemptDevice(old, o) ==
    CASE o = "ctor_TIMEOUT" -> old
      [] o = "ok"           -> [NewDevice EXCEPT !.connected = TRUE]
      [] o = "ok_stopped"   -> [NewDevice EXCEPT !.connected = TRUE, !.running = FALSE]
      [] o = "TIMEOUT"      -> StopDevice(NewDevice)
      [] o = "EOF"          -> [NewDevice EXCEPT !.alive = FALSE]

\* How char_write(handle, value, True) can end on a device (bluetooth.py 116-144
\* with _expect 257-299 and _handle_notification 301-316):
\*   NotConnectedError  _connected is False (129-131), or a disconnect line is
\*                      matched during the wait (291-296)
\*   OSError, EOF       the process is gone: sendline or the wait fails
\*   ok                 the confirmation line is matched
\*   NoResponseError    the wait times out (142-144)
\*   AttributeError     a notification line is matched first: string.split (309)
WriteOutcomes(dev) ==
    IF ~dev.connected THEN {"NotConnectedError"}
    ELSE IF ~dev.alive THEN {"OSError", "EOF"}
    ELSE {"ok", "NoResponseError", "AttributeError", "NotConnectedError", "EOF"}

CharWriteDevice(dev, o) ==
    IF ~dev.connected THEN dev
    ELSE IF o = "NotConnectedError" THEN [dev EXCEPT !.running = FALSE]
    ELSE IF o = "EOF" THEN [dev EXCEPT !.alive = FALSE]
    ELSE dev

\* a _send_cmd that does not ask char_write for the confirmation
SendCmd_unconfirmed(vals, o) ==
    IF ~__connected
    THEN [res |-> "returned", dev |-> _blue_connection, wr |-> <<>>]
    ELSE IF ~IsBytes(Frame(vals))
    THEN [res |-> "ValueError", dev |-> _blue_connection, wr |-> <<>>]
    ELSE [res |-> IF o = "ok" THEN "returned" ELSE o,
          dev |-> CharWriteDevice(_blue_connection, o),
          wr  |-> <<[handle |-> 37, value |-> Frame(vals), wait |-> FALSE]>>]

\* lionchief.py 61-71: what _send_cmd(vals) does when the write ends as o:
\* its result, the device afterwards and the char_write calls it made.
SendCmd(vals, o) ==
    IF ~__connected
    THEN [res |-> "returned", dev |-> _blue_connection, wr |-> <<>>]
    ELSE IF ~IsBytes(Frame(vals))
    THEN [res |-> "ValueError", dev |-> _blue_connection, wr |-> <<>>]
    ELSE [res |-> IF o = "ok" THEN "returned" ELSE o,
          dev |-> CharWriteDevice(_blue_connection, o),
          wr  |-> <<[handle |-> 37, value |-> Frame(vals), wait |-> TRUE]>>]

\* lionchief.py 73-76: _set_speed(sp): current_speed is assigned after _send_cmd
\* returns, whether or not it wrote anything, and not when it raised.
SetSpeed(sp, o) ==
    LET e == SendCmd(<<69, sp>>, o)
    IN  [res |-> e.res, dev |-> e.dev, wr |-> e.wr,
         cur |-> IF e.res = "returned" THEN sp ELSE current_speed]

\* lionchief.py 106-107: set_bell(on)
SetBell(on, o) == SendCmd(<<71, IF on THEN 1 ELSE 0>>, o)

----------------------------------------------------------------------------
(* LionChief.connect, lionchief.py 31-59. *)

\* lionchief.py 35-38: bluetooth.close_device in a try; when it raises,
\* bluetooth.show_all_devices is called inside the except clause.  Both are
\* subprocess.check_output calls (bluetooth.py 425-443), which raise
\* CalledProcessError on a non-zero exit status:
\*   removed   close_device returns
\*   listed    close_device raises, show_all_devices returns
\*   CalledProcessError   both raise: the second leaves connect
PreludeOutcomes == {"removed", "listed", "CalledProcessError"}

ConnectCall(n) ==
    /\ lcpc = "idle"
    /\ lcOp' = "connect"
    /\ max_retries' = n
    /\ i' = 0
    /\ connected' = FALSE
    /\ attempts' = 0
    /\ reported' = 0
    /\ writes' = <<>>
    /\ \E p \in PreludeOutcomes :
          IF p = "CalledProcessError"
          THEN lcpc' = "idle" /\ lcResult' = "CalledProcessError"
          ELSE lcpc' = "connect_loop" /\ lcResult' = "running"
    /\ UNCHANGED <<__connected, current_speed, _blue_connection,
                   end_speed, speed, rampFrom, issued, values>>
    /\ UNCHANGED setterArg
    /\ UNCHANGED btVars
    /\ UNCHANGED <<devVars, appVars>>

\* a retry loop whose condition is only `i < max_retries`
ConnectAttempt_untilExhausted ==
    /\ lcpc = "connect_loop"
    /\ i < max_retries
    /\ \E o \in AttemptOutcomes :
          /\ attempts' = attempts + 1
          /\ _blue_connection' = AttemptDevice(_blue_connection, o)
          /\ IF AttemptRaises(o) = "none"
             THEN connected' = TRUE /\ UNCHANGED <<i, reported>>
             ELSE connected' = FALSE /\ reported' = reported + 1 /\ i' = i + 1
    /\ UNCHANGED <<__connected, current_speed, lcpc, lcOp, lcResult, max_retries,
                   end_speed, speed, rampFrom, issued, values, writes>>
    /\ UNCHANGED setterArg
    /\ UNCHANGED btVars
    /\ UNCHANGED <<devVars, appVars>>

\* lionchief.py 43-55: one pass of the while loop
ConnectAttempt ==
    /\ lcpc = "connect_loop"
    /\ connected = FALSE /\ i < max_retries
    /\ \E o \in AttemptOutcomes :
          /\ attempts' = attempts + 1
          /\ _blue_connection' = AttemptDevice(_blue_connection, o)
          /\ IF AttemptRaises(o) = "none"
             THEN connected' = TRUE /\ UNCHANGED <<i, reported>>
             ELSE connected' = FALSE /\ reported' = reported + 1 /\ i' = i + 1
    /\ UNCHANGED <<__connected, current_speed, lcpc, lcOp, lcResult, max_retries,
                   end_speed, speed, rampFrom, issued, values, writes>>
    /\ UNCHANGED setterArg
    /\ UNCHANGED btVars
    /\ UNCHANGED <<devVars, appVars>>

\* lionchief.py 57-59: the loop is left
ConnectReturn ==
    /\ lcpc = "connect_loop"
    /\ ~(connected = FALSE /\ i < max_retries)
    /\ __connected' = connected
    /\ lcpc' = "idle"
    /\ lcResult' = "returned"
    /\ UNCHANGED <<current_speed, _blue_connection, lcOp, max_retries, i, connected,
                   attempts, reported, end_speed, speed, rampFrom, issued, values, writes>>
    /\ UNCHANGED setterArg
    /\ UNCHANGED btVars
    /\ UNCHANGED <<devVars, appVars>>

----------------------------------------------------------------------------
(* LionChief.ramp, lionchief.py 81-93.  An exception of a command leaves    *)
(* ramp at once: nothing in ramp, _set_speed or _send_cmd catches it.       *)

\* lines 82-84: set_bell(True), speed = self.current_speed
RampCall(t) ==
    /\ lcpc = "idle"
    /\ lcOp' = "ramp"
    /\ end_speed' = t
    /\ rampFrom' = current_speed
    /\ issued' = <<>>
    /\ speed' = current_speed
    /\ \E o \in WriteOutcomes(_blue_connection) :
          LET e == SetBell(TRUE, o)
          IN  /\ writes' = e.wr
              /\ _blue_connection' = e.dev
              /\ IF e.res = "returned"
                 THEN lcpc' = "ramp_loop" /\ lcResult' = "running"
                 ELSE lcpc' = "idle" /\ lcResult' = e.res
    /\ UNCHANGED <<__connected, current_speed, max_retries, i, connected,
                   attempts, reported, values>>
    /\ UNCHANGED setterArg
    /\ UNCHANGED btVars
    /\ UNCHANGED <<devVars, appVars>>

\* lines 85-91: one pass of the while loop
RampStep ==
    /\ lcpc = "ramp_loop"
    /\ speed # end_speed
    /\ issued' = Append(issued, speed)
    /\ \E o \in WriteOutcomes(_blue_connection) :
          LET e == SetSpeed(speed, o)
          IN  /\ writes' = writes \o e.wr
              /\ _blue_connection' = e.dev
              /\ current_speed' = e.cur
              /\ IF e.res = "returned"
                 THEN /\ speed' = IF speed > end_speed THEN speed - 1 ELSE speed + 1
                      /\ UNCHANGED <<lcpc, lcResult>>
                 ELSE /\ lcpc' = "idle" /\ lcResult' = e.res
                      /\ UNCHANGED speed
    /\ UNCHANGED <<__connected, lcOp, max_retries, i, connected, attempts, reported,
                   end_speed, rampFrom, values>>
    /\ UNCHANGED setterArg
    /\ UNCHANGED btVars
    /\ UNCHANGED <<devVars, appVars>>

\* line 92: self._set_speed(end_speed)
RampLast ==
    /\ lcpc = "ramp_loop"
    /\ speed = end_speed
    /\ issued' = Append(issued, end_speed)
    /\ \E o \in WriteOutcomes(_blue_connection) :
          LET e == SetSpeed(end_speed, o)
          IN  /\ writes' = writes \o e.wr
              /\ _blue_connection' = e.dev
              /\ current_speed' = e.cur
              /\ IF e.res = "returned"
                 THEN lcpc' = "ramp_bell_off" /\ UNCHANGED lcResult
                 ELSE lcpc' = "idle" /\ lcResult' = e.res
    /\ UNCHANGED <<__connected, lcOp, max_retries, i, connected, attempts, reported,
                   end_speed, speed, rampFrom, values>>
    /\ UNCHANGED setterArg
    /\ UNCHANGED btVars
    /\ UNCHANGED <<devVars, appVars>>

\* line 93: self.set_bell(False)
RampBellOff ==
    /\ lcpc = "ramp_bell_off"
    /\ \E o \in WriteOutcomes(_blue_connection) :
          LET e == SetBell(FALSE, o)
          IN  /\ writes' = writes \o e.wr
              /\ _blue_connection' = e.dev
              /\ lcResult' = e.res
    /\ lcpc' = "idle"
    /\ UNCHANGED <<__connected, current_speed, lcOp, max_retries, i, connected,
                   attempts, reported, end_speed, speed, rampFrom, issued, values>>
    /\ UNCHANGED setterArg
    /\ UNCHANGED btVars
    /\ UNCHANGED <<devVars, appVars>>

----------------------------------------------------------------------------
(* What the peer and the gatttool process do to the device a LionChief owns. *)

\* bluetooth.py 167-177 with 291-296: the listener matches a disconnect line;
\* _expect clears _running and the listener leaves its loop.  _connected stays.
ListenerSeesDisconnect ==
    /\ _blue_connection.exists /\ _blue_connection.alive
    /\ _blue_connection.connected /\ _blue_connection.running
    /\ _blue_connection' = [_blue_connection EXCEPT !.running = FALSE]
    /\ UNCHANGED <<__connected, current_speed, lcpc, lcOp, lcResult, max_retries, i,
                   connected, attempts, reported, end_speed, speed, rampFrom, issued,
                   values, writes>>
    /\ UNCHANGED setterArg
    /\ UNCHANGED btVars
    /\ UNCHANGED <<devVars, appVars>>

\* the gatttool process ends by itself
ProcessExits ==
    /\ _blue_connection.exists /\ _blue_connection.alive
    /\ _blue_connection' = [_blue_connection EXCEPT !.alive = FALSE]
    /\ UNCHANGED <<__connected, current_speed, lcpc, lcOp, lcResult, max_retries, i,
                   connected, attempts, reported, end_speed, speed, rampFrom, issued,
                   values, writes>>
    /\ UNCHANGED setterArg
    /\ UNCHANGED btVars
    /\ UNCHANGED <<devVars, appVars>>

----------------------------------------------------------------------------
(* The setters of LionChief, lionchief.py 73-76 and 95-137. *)

\* lionchief.py 8: PITCHES = [0xfe, 0xff, 0, 1, 2]
PITCHES == <<254, 255, 0, 1, 2>>

\* PITCHES[pitch] as Python indexes a list: from 0, a negative index from the end
PitchByte(p) == IF p >= 0 THEN PITCHES[p + 1] ELSE PITCHES[Len(PITCHES) + p + 1]

\* a pitch setter that tests only the upper end of the range
PitchRejected_upperOnly(p) == p >= Len(PITCHES)

\* lionchief.py 128 and 134: if pitch < 0 or pitch >= len(PITCHES)
PitchRejected(p) == p < 0 \/ p >= Len(PITCHES)

PitchSetters == {"set_bell_pitch", "set_horn_pitch"}

Setters == {"_set_speed", "speak", "set_horn", "set_bell", "set_reverse",
            "set_over_volume", "set_bell_volume", "set_horn_volume",
            "set_speech_volume", "set_engine_volume"} \cup PitchSetters

SetterArgs(name) == IF name \in PitchSetters THEN -1..MaxArg ELSE {0, 1, MaxArg}

\* the list each setter hands to _send_cmd; an `on` argument is true when not 0
SetterValues(name, a) ==
    CASE name = "_set_speed"        -> <<69, a>>
      [] name = "speak"             -> <<77, a, 0>>
      [] name = "set_horn"          -> <<72, IF a # 0 THEN 1 ELSE 0>>
      [] name = "set_bell"          -> <<71, IF a # 0 THEN 1 ELSE 0>>
      [] name = "set_reverse"       -> <<70, IF a # 0 THEN 2 ELSE 1>>
      [] name = "set_over_volume"   -> <<76, a>>
      [] name = "set_bell_volume"   -> <<68, 2, a>>
      [] name = "set_horn_volume"   -> <<68, 1, a>>
      [] name = "set_speech_volume" -> <<68, 3, a>>
      [] name = "set_engine_volume" -> <<68, 4, a>>
      [] name = "set_bell_pitch"    -> <<68, 2, 14, PitchByte(a)>>
      [] name = "set_horn_pitch"    -> <<68, 1, 14, PitchByte(a)>>

\* one call of a setter with argument a: a pitch setter logs an error and
\* returns for a rejected index (128-130, 134-136); otherwise the setter calls
\* _send_cmd, and _set_speed then assigns current_speed (75)
SetterCall(name, a) ==
    /\ lcpc = "idle"
    /\ lcOp' = name
    /\ setterArg' = a
    /\ IF name \in PitchSetters /\ PitchRejected(a)
       THEN /\ reported' = 1
            /\ values' = <<>>
            /\ writes' = <<>>
            /\ lcResult' = "returned"
            /\ UNCHANGED <<_blue_connection, current_speed>>
       ELSE /\ reported' = 0
            /\ values' = SetterValues(name, a)
            /\ \E o \in WriteOutcomes(_blue_connection) :
                  LET e == SendCmd(SetterValues(name, a), o)
                  IN  /\ writes' = e.wr
                      /\ _blue_connection' = e.dev
                      /\ lcResult' = e.res
                      /\ current_speed' = IF name = "_set_speed" /\ e.res = "returned"
                                          THEN a ELSE current_speed
    /\ UNCHANGED <<__connected, lcpc, max_retries, i, connected, attempts,
                   end_speed, speed, rampFrom, issued>>
    /\ UNCHANGED btVars
    /\ UNCHANGED <<devVars, appVars>>

----------------------------------------------------------------------------
(* LionChief.close, lionchief.py 143-157, with __del__ 139-141. *)

\* lines 153-157: self.__connected = False follows close_device inside the
\* try, so it is reached only when close_device returns
CloseClears(p) == p = "removed"

\* One call of close().  Line 147 reads self._blue_connection._connected,
\* AttributeError while _blue_connection is None.  Each pass of the loop calls
\* __del__, which calls stop() when self.connected; the passes after the first
\* find the device as the first left it.  Then close_device and, when it
\* raises, show_all_devices, as in connect.
CloseCall ==
    /\ lcpc = "idle"
    /\ lcOp' = "close"
    /\ IF ~_blue_connection.exists
       THEN /\ lcResult' = "AttributeError"
            /\ UNCHANGED <<__connected, _blue_connection>>
       ELSE /\ _blue_connection' = IF _blue_connection.connected /\ __connected
                                   THEN StopDevice(_blue_connection)
                                   ELSE _blue_connection
            /\ \E p \in PreludeOutcomes :
                  /\ lcResult' = IF p = "CalledProcessError" THEN p ELSE "returned"
                  /\ __connected' = IF CloseClears(p) THEN FALSE ELSE __connected
    /\ UNCHANGED <<current_speed, lcpc, max_retries, i, connected, attempts, reported,
                   end_speed, speed, rampFrom, issued, values, writes>>
    /\ UNCHANGED setterArg
    /\ UNCHANGED btVars
    /\ UNCHANGED <<devVars, appVars>>

----------------------------------------------------------------------------
(* SpecLC: the LionChief handlers. *)

\* lionchief.py 11-25: __init__
InitLC ==
    /\ __connected = FALSE
    /\ current_speed = 0
    /\ _blue_connection = NoDevice
    /\ lcpc = "idle"
    /\ lcOp = "none"
    /\ lcResult = "none"
    /\ max_retries = 0
    /\ i = 0
    /\ connected = FALSE
    /\ attempts = 0
    /\ reported = 0
    /\ end_speed = 0
    /\ speed = 0
    /\ rampFrom = 0
    /\ issued = <<>>
    /\ values = <<>>
    /\ writes = <<>>
    /\ setterArg = 0

LCStep ==
    \/ \E n \in 0..MaxRetries : ConnectCall(n)
    \/ ConnectAttempt
    \/ ConnectReturn
    \/ \E t \in 0..MaxSpeed : RampCall(t)
    \/ RampStep
    \/ RampLast
    \/ RampBellOff
    \/ ListenerSeesDisconnect
    \/ ProcessExits

----------------------------------------------------------------------------
(* SpecCmd: _send_cmd called with each sampled list, connected or not. *)

InitCmd ==
    /\ values \in CmdInputs
    /\ __connected \in BOOLEAN
    /\ _blue_connection = IF __connected THEN [NewDevice EXCEPT !.connected = TRUE]
                                          ELSE NoDevice
    /\ current_speed = 0
    /\ lcpc = "call"
    /\ lcOp = "none"
    /\ lcResult = "none"
    /\ max_retries = 0
    /\ i = 0
    /\ connected = FALSE
    /\ attempts = 0
    /\ reported = 0
    /\ end_speed = 0
    /\ speed = 0
    /\ rampFrom = 0
    /\ issued = <<>>
    /\ writes = <<>>
    /\ setterArg = 0

\* lionchief.py 61-71: one call of _send_cmd(values)
SendCmdCall ==
    /\ lcpc = "call"
    /\ lcOp' = "_send_cmd"
    /\ lcpc' = "idle"
    /\ \E o \in WriteOutcomes(_blue_connection) :
          LET e == SendCmd(values, o)
          IN  /\ writes' = e.wr
              /\ _blue_connection' = e.dev
              /\ lcResult' = e.res
    /\ UNCHANGED <<__connected, current_speed, max_retries, i, connected, attempts,
                   reported, end_speed, speed, rampFrom, issued, values>>
    /\ UNCHANGED setterArg
    /\ UNCHANGED btVars
    /\ UNCHANGED <<devVars, appVars>>


----------------------------------------------------------------------------
(* Claims about LionChief. *)

\* C1: for every opcode and payload of bytes, a connected _send_cmd hands
\* char_write the buffer [0, opcode, payload..., c] where c is one byte
\* (0..255) and the bytes of the buffer sum to 0 modulo 256.
C1_ChecksumByte ==
    (lcOp = "_send_cmd" /\ __connected) =>
        /\ lcResult # "ValueError"
        /\ Len(writes) = 1
        /\ LET buf == writes[1].value
               c   == buf[Len(buf)]
           IN  /\ buf = <<0>> \o values \o <<c>>
               /\ c \in 0..255
               /\ SumSeq(buf) % 256 = 0

\* the stepping of ramp: from a to b by 1, both ends included
RECURSIVE StepSeq(_, _)
StepSeq(a, b) ==
    IF a = b THEN <<b>>
    ELSE <<a>> \o StepSeq(IF a > b THEN a - 1 ELSE a + 1, b)

\* C2: a ramp(t) entered at current speed s ends after calling _set_speed with
\* exactly s, s+-1, ..., t, each value once, in order, t last.
C2_RampSequence ==
    (lcOp = "ramp" /\ lcpc = "idle") =>
        /\ lcResult = "returned"
        /\ issued = StepSeq(rampFrom, end_speed)

\* C3: a connect(max_retries = n) none of whose attempts connected has made
\* exactly n attempts, reported exactly n failures, returned without raising
\* and left the LionChief not connected.
C3_RetryBound ==
    (lcOp = "connect" /\ lcpc = "idle" /\ connected = FALSE) =>
        /\ lcResult = "returned"
        /\ attempts = max_retries
        /\ reported = max_retries
        /\ __connected = FALSE

----------------------------------------------------------------------------
(* BTLEDevice, src/python/bluetooth.py: one client, its gatttool session,   *)
(* its listener thread and the threads calling into it.                     *)

Callers == {"c1", "c2"}
Listener == "listener"

\* the characteristic handle of the calls (0x25, lionchief.py 71)
Handles == {37}
Callbacks == {"cb1"}
\* callback = None is the string "None"
CallbackArgs == Callbacks \cup {"None"}
\* type_ arguments of subscribe: the three valid ones and an invalid one
Types == {0, 1, 2, 3}
\* the value of a caller's own char_write
WriteValues == {<<1>>}

\* An output line of gatttool is [kind, handle]; the kinds are named after the
\* pattern of bluetooth.py that matches the line:
\*   "success"       r'Connection successful.*\[LE\]>'            (line 157)
\*   "descriptor"    r'descriptor: .*?\r'                          (line 112)
\*   "written"       'Characteristic value was written successfully' (141)
\*   "Notification"  'Notification handle = .*? \r'                (line 279)
\*   "Indication"    'Indication   handle = .*? \r'                (line 280)
\*   "InvalidFd"     '.*Invalid file descriptor.*'                 (line 281)
\*   "Disconnected"  '.*Disconnected\r'                            (line 282)
Line(kind, h) == [kind |-> kind, handle |-> h]

\* bluetooth.py 277-283: the pattern list of _expect
Patterns(expected) == <<expected, "Notification", "Indication", "InvalidFd", "Disconnected">>

SeqRange(s) == {s[k] : k \in 1..Len(s)}

\* pexpect: the earliest line of the buffer one of the patterns matches, 0 if none
MatchPos(buf, pats) ==
    IF \E k \in 1..Len(buf) : buf[k].kind \in SeqRange(pats)
    THEN CHOOSE k \in 1..Len(buf) :
            /\ buf[k].kind \in SeqRange(pats)
            /\ \A j \in 1..(k - 1) : buf[j].kind \notin SeqRange(pats)
    ELSE 0

\* the index pexpect returns: the place of the matching pattern in the list, from 0
PatternIndex(pats, kind) == (CHOOSE j \in 1..Len(pats) : pats[j] = kind) - 1

\* self._con.expect(pats, timeout): the match and the buffer left (everything up
\* to the match is consumed), or the exception: TIMEOUT while the process
\* lives, EOF when it has exited, ValueError on a closed session.
ConExpect(pats) ==
    LET pos == MatchPos(out, pats)
    IN  IF pos > 0
        THEN [exc |-> "none", index |-> PatternIndex(pats, out[pos].kind),
              after |-> out[pos], rest |-> SubSeq(out, pos + 1, Len(out))]
        ELSE [exc |-> CASE con = "alive"  -> "TIMEOUT"
                        [] con = "exited" -> "EOF"
                        [] con = "closed" -> "ValueError",
              index |-> -1, after |-> Line("none", 0), rest |-> out]

\* bluetooth.py 301-316, _handle_notification(msg): line 309 calls string.split,
\* which Python 3 does not have, so the call raises AttributeError before it
\* takes _lock and before any callback is invoked.
HandleNotification(msg) == [exc |-> "AttributeError", invoked |-> {}]

\* an _expect whose wait has no timeout: with nothing to match it keeps waiting
Expect_blocking(expected) ==
    LET m == ConExpect(Patterns(expected))
    IN  CASE m.exc = "TIMEOUT" ->
               [exc |-> "none", woke |-> "notification", rest |-> m.rest,
                running |-> _running, disc |-> FALSE]
          [] m.exc \in {"EOF", "ValueError"} ->
               [exc |-> m.exc, woke |-> "closed", rest |-> m.rest,
                running |-> _running, disc |-> FALSE]
          [] m.exc = "none" /\ m.index = 0 ->
               [exc |-> "none", woke |-> "expected", rest |-> m.rest,
                running |-> _running, disc |-> FALSE]
          [] m.exc = "none" /\ m.index \in {1, 2} ->
               [exc |-> HandleNotification(m.after).exc, woke |-> "notification",
                rest |-> m.rest, running |-> _running, disc |-> FALSE]
          [] m.exc = "none" /\ m.index \in {3, 4} ->
               [exc |-> "NotConnectedError", woke |-> "disconnect", rest |-> m.rest,
                running |-> FALSE, disc |-> TRUE]

\* bluetooth.py 276-299, one wait of _expect(expected) by a thread that holds
\* _connection_lock: exc is "none" when the loop is left by `break`, and woke
\* tells what ended the wait.
Expect(expected) ==
    LET m == ConExpect(Patterns(expected))
    IN  CASE m.exc = "TIMEOUT" ->
               [exc |-> "NotificationTimeout", woke |-> "timeout", rest |-> m.rest,
                running |-> _running, disc |-> FALSE]
          [] m.exc \in {"EOF", "ValueError"} ->
               [exc |-> m.exc, woke |-> "closed", rest |-> m.rest,
                running |-> _running, disc |-> FALSE]
          [] m.exc = "none" /\ m.index = 0 ->
               [exc |-> "none", woke |-> "expected", rest |-> m.rest,
                running |-> _running, disc |-> FALSE]
          [] m.exc = "none" /\ m.index \in {1, 2} ->
               [exc |-> HandleNotification(m.after).exc, woke |-> "notification",
                rest |-> m.rest, running |-> _running, disc |-> FALSE]
          [] m.exc = "none" /\ m.index \in {3, 4} ->
               [exc |-> "NotConnectedError", woke |-> "disconnect", rest |-> m.rest,
                running |-> FALSE, disc |-> TRUE]

\* A command line sent to gatttool: its name, and for the char-write commands
\* the handle and the value it carries.
Cmd(name, h, v) == [name |-> name, handle |-> h, value |-> v]

\* self._con.sendline(cmd): OSError on a closed session; gatttool reads the line
\* only while it lives
SendlineRaises == con = "closed"
Sendline(cmd) == IF con = "alive" THEN Append(inbox, cmd) ELSE inbox
CanSend == con # "alive" \/ Len(inbox) < MaxInbox

----------------------------------------------------------------------------
(* gatttool and the peripheral. *)

\* the peripheral after a char-write command for handle h carrying v reached it
PeerWrite(h, v) ==
    IF (h - 1) \in Handles THEN [written EXCEPT ![h - 1] = v] ELSE written

\* gatttool reads one command line; say is TRUE when it answers in time.  A
\* write request it does not answer in time may or may not have reached the
\* peripheral; one it answers has.
Gatttool(say) ==
    /\ con = "alive"
    /\ inbox # <<>>
    /\ LET cmd == Head(inbox)
           room == Len(out) < MaxOut
           down == IF room THEN Append(out, Line("Disconnected", 0)) ELSE out
       IN  CASE cmd.name = "exit" ->
                  /\ con' = "exited" /\ peer' = "down" /\ inbox' = <<>> /\ out' = out
                  /\ UNCHANGED written
             [] cmd.name = "connect" ->
                  /\ inbox' = Tail(inbox)
                  /\ IF say /\ room
                     THEN peer' = "up" /\ out' = Append(out, Line("success", 0))
                     ELSE UNCHANGED <<peer, out>>
                  /\ con' = con
                  /\ UNCHANGED written
             [] cmd.name = "char-write-req" ->
                  /\ inbox' = Tail(inbox)
                  /\ out' = IF peer = "down" THEN down
                            ELSE IF say /\ room THEN Append(out, Line("written", 0))
                            ELSE out
                  /\ \E reached \in BOOLEAN :
                        /\ reached => peer = "up"
                        /\ (peer = "up" /\ say /\ room) => reached
                        /\ written' = IF reached THEN PeerWrite(cmd.handle, cmd.value)
                                                 ELSE written
                  /\ UNCHANGED <<peer, con>>
             [] cmd.name = "char-write-cmd" ->
                  /\ inbox' = Tail(inbox)
                  /\ out' = IF peer = "down" THEN down ELSE out
                  /\ written' = IF peer = "up" THEN PeerWrite(cmd.handle, cmd.value)
                                               ELSE written
                  /\ UNCHANGED <<peer, con>>
             [] cmd.name = "char-read-hnd" ->
                  /\ inbox' = Tail(inbox)
                  /\ out' = IF peer = "down" THEN down
                            ELSE IF say /\ room THEN Append(out, Line("descriptor", 0))
                            ELSE out
                  /\ UNCHANGED <<peer, con, written>>
    /\ UNCHANGED <<_running, _connected, _subscribed_handlers, _callbacks, _lock,
                   _connection_lock, lpc, pc, call, sawDisconnect>>
    /\ UNCHANGED lcVars
    /\ UNCHANGED <<devVars, appVars>>

\* the peripheral pushes a value: gatttool prints a notification or indication line
PeerNotifies(kind, h) ==
    /\ con = "alive" /\ peer = "up"
    /\ Len(out) < MaxOut
    /\ out' = Append(out, Line(kind, h))
    /\ UNCHANGED <<_running, _connected, _subscribed_handlers, _callbacks, _lock,
                   _connection_lock, con, inbox, peer, lpc, pc, call, sawDisconnect>>
    /\ UNCHANGED written
    /\ UNCHANGED lcVars
    /\ UNCHANGED <<devVars, appVars>>

\* the link is lost: gatttool prints its 'Invalid file descriptor' warning
PeerDrops ==
    /\ con = "alive" /\ peer = "up"
    /\ Len(out) < MaxOut
    /\ peer' = "down"
    /\ out' = Append(out, Line("InvalidFd", 0))
    /\ UNCHANGED <<_running, _connected, _subscribed_handlers, _callbacks, _lock,
                   _connection_lock, con, inbox, lpc, pc, call, sawDisconnect>>
    /\ UNCHANGED written
    /\ UNCHANGED lcVars
    /\ UNCHANGED <<devVars, appVars>>

\* the gatttool process ends by itself
ProcessDies ==
    /\ con = "alive"
    /\ con' = "exited"
    /\ peer' = "down"
    /\ inbox' = <<>>
    /\ UNCHANGED <<_running, _connected, _subscribed_handlers, _callbacks, _lock,
                   _connection_lock, out, lpc, pc, call, sawDisconnect>>
    /\ UNCHANGED written
    /\ UNCHANGED lcVars
    /\ UNCHANGED <<devVars, appVars>>

----------------------------------------------------------------------------
(* The calls of a caller thread t. *)

NoCall == [op |-> "none", h |-> 0, cb |-> "None", type_ |-> 0, wait |-> FALSE,
           value |-> <<>>, entry |-> FALSE, prev |-> <<>>, line |-> "none",
           woke |-> "none", res |-> "none"]

\* the thread leaves its call: `with` gives back the locks it holds
Return(t, res, woke) ==
    /\ call' = [call EXCEPT ![t].res = res, ![t].woke = woke]
    /\ pc' = [pc EXCEPT ![t] = "idle"]
    /\ _connection_lock' = IF _connection_lock = t THEN "free" ELSE _connection_lock
    /\ _lock' = IF _lock = t THEN "free" ELSE _lock

\* a client whose char_read_hnd and char_write do not look at _connected
RaisesNotConnected_never == FALSE

\* bluetooth.py 106 and 129: `if not self._connected: raise NotConnectedError`
RaisesNotConnected == ~_connected

\* bluetooth.py 133: suffix = 'req' if wait_for_response else 'cmd'
WriteCommand(wait) == IF wait THEN "char-write-req" ELSE "char-write-cmd"

\* a char_write without the `except NotificationTimeout` clause
CallerException_uncaught(op, exc) == exc

\* bluetooth.py 139-144: char_write turns NotificationTimeout into NoResponseError;
\* char_read_hnd (112) lets every exception of _expect through
CallerException(op, exc) ==
    IF op # "char_read_hnd" /\ exc = "NotificationTimeout" THEN "NoResponseError" ELSE exc

\* bluetooth.py 155-156: connect() sends 'connect', holding no lock
CallConnect(t) ==
    /\ pc[t] = "idle"
    /\ CanSend
    /\ IF SendlineRaises
       THEN /\ call' = [call EXCEPT ![t] = [NoCall EXCEPT !.op = "connect", !.res = "OSError"]]
            /\ UNCHANGED <<pc, inbox>>
       ELSE /\ call' = [call EXCEPT ![t] = [NoCall EXCEPT !.op = "connect", !.res = "running",
                                                         !.line = "connect"]]
            /\ pc' = [pc EXCEPT ![t] = "connect_wait"]
            /\ inbox' = Sendline(Cmd("connect", 0, <<>>))
    /\ UNCHANGED <<_running, _connected, _subscribed_handlers, _callbacks, _lock,
                   _connection_lock, con, out, peer, lpc, sawDisconnect>>
    /\ UNCHANGED written
    /\ UNCHANGED lcVars
    /\ UNCHANGED <<devVars, appVars>>

\* bluetooth.py 157-161: self._con.expect(success, timeout), outside any lock;
\* pexpect.TIMEOUT takes connect() to its except clause
ConnectWait(t) ==
    /\ pc[t] = "connect_wait"
    /\ LET m == ConExpect(<<"success">>)
       IN  CASE m.exc = "none" ->
                  /\ out' = m.rest
                  /\ _connected' = TRUE
                  /\ sawDisconnect' = FALSE
                  /\ call' = [call EXCEPT ![t].woke = "expected",
                                          ![t].res = IF ~_running THEN "AttributeError"
                                                                  ELSE "returned"]
                  /\ pc' = [pc EXCEPT ![t] = "idle"]
                  /\ UNCHANGED <<_running, inbox>>
             [] m.exc = "TIMEOUT" ->
                  /\ call' = [call EXCEPT ![t].woke = "timeout"]
                  /\ pc' = [pc EXCEPT ![t] = "connect_stop"]
                  /\ UNCHANGED <<out, _connected, sawDisconnect, _running, inbox>>
             [] m.exc \in {"EOF", "ValueError"} ->
                  /\ call' = [call EXCEPT ![t].woke = "closed", ![t].res = m.exc]
                  /\ pc' = [pc EXCEPT ![t] = "idle"]
                  /\ UNCHANGED <<out, _connected, sawDisconnect, _running, inbox>>
    /\ UNCHANGED <<_subscribed_handlers, _callbacks, _lock, _connection_lock, con,
                   peer, lpc>>
    /\ UNCHANGED written
    /\ UNCHANGED lcVars
    /\ UNCHANGED <<devVars, appVars>>

\* bluetooth.py 162 with 181-183: the except clause of connect() calls stop(),
\* which looks at isalive() now; when the process has exited since the wait,
\* stop() returns at once and NotConnectedError is raised (163-165)
ConnectTimeout(t) ==
    /\ pc[t] = "connect_stop"
    /\ _running' = FALSE
    /\ IF con = "alive"
       THEN /\ CanSend
            /\ inbox' = Sendline(Cmd("exit", 0, <<>>))
            /\ pc' = [pc EXCEPT ![t] = "stop_wait"]
            /\ UNCHANGED call
       ELSE /\ call' = [call EXCEPT ![t].res = "NotConnectedError"]
            /\ pc' = [pc EXCEPT ![t] = "idle"]
            /\ UNCHANGED inbox
    /\ UNCHANGED <<_connected, _subscribed_handlers, _callbacks, _lock, _connection_lock,
                   con, out, peer, lpc, sawDisconnect>>
    /\ UNCHANGED written
    /\ UNCHANGED lcVars
    /\ UNCHANGED <<devVars, appVars>>

\* bluetooth.py 181-183: stop() clears _running and, if the process is alive,
\* sends 'exit'
CallStop(t) ==
    /\ pc[t] = "idle"
    /\ _running' = FALSE
    /\ IF con = "alive"
       THEN /\ CanSend
            /\ inbox' = Sendline(Cmd("exit", 0, <<>>))
            /\ call' = [call EXCEPT ![t] = [NoCall EXCEPT !.op = "stop", !.res = "running",
                                                         !.line = "exit"]]
            /\ pc' = [pc EXCEPT ![t] = "stop_wait"]
       ELSE /\ call' = [call EXCEPT ![t] = [NoCall EXCEPT !.op = "stop", !.res = "returned"]]
            /\ UNCHANGED <<inbox, pc>>
    /\ UNCHANGED <<_connected, _subscribed_handlers, _callbacks, _lock, _connection_lock,
                   con, out, peer, lpc, sawDisconnect>>
    /\ UNCHANGED written
    /\ UNCHANGED lcVars
    /\ UNCHANGED <<devVars, appVars>>

\* bluetooth.py 185-191: after the wait of at most 1 s, self._con.close() and
\* self._connected = False; inside connect(), NotConnectedError follows (163-165)
StopClose(t) ==
    /\ pc[t] = "stop_wait"
    /\ con' = "closed"
    /\ peer' = "down"
    /\ inbox' = <<>>
    /\ _connected' = FALSE
    /\ call' = [call EXCEPT ![t].res = IF call[t].op = "connect" THEN "NotConnectedError"
                                                                 ELSE "returned"]
    /\ pc' = [pc EXCEPT ![t] = "idle"]
    /\ UNCHANGED <<_running, _subscribed_handlers, _callbacks, _lock, _connection_lock,
                   out, lpc, sawDisconnect>>
    /\ UNCHANGED written
    /\ UNCHANGED lcVars
    /\ UNCHANGED <<devVars, appVars>>

\* bluetooth.py 106-108: char_read_hnd(h) checks _connected
CallRead(t, h) ==
    /\ pc[t] = "idle"
    /\ LET c == [NoCall EXCEPT !.op = "char_read_hnd", !.h = h, !.entry = _connected]
       IN  IF RaisesNotConnected
           THEN /\ call' = [call EXCEPT ![t] = [c EXCEPT !.res = "NotConnectedError"]]
                /\ pc' = pc
           ELSE /\ call' = [call EXCEPT ![t] = [c EXCEPT !.res = "running"]]
                /\ pc' = [pc EXCEPT ![t] = "read_lock"]
    /\ UNCHANGED <<_running, _connected, _subscribed_handlers, _callbacks, _lock,
                   _connection_lock, con, out, inbox, peer, lpc, sawDisconnect>>
    /\ UNCHANGED written
    /\ UNCHANGED lcVars
    /\ UNCHANGED <<devVars, appVars>>

\* bluetooth.py 110-111: with self._connection_lock: self._con.sendline(...)
ReadLockSend(t) ==
    /\ pc[t] = "read_lock"
    /\ _connection_lock = "free"
    /\ CanSend
    /\ IF SendlineRaises
       THEN /\ Return(t, "OSError", "none")
            /\ UNCHANGED inbox
       ELSE /\ _connection_lock' = t
            /\ inbox' = Sendline(Cmd("char-read-hnd", call[t].h, <<>>))
            /\ call' = [call EXCEPT ![t].line = "char-read-hnd"]
            /\ pc' = [pc EXCEPT ![t] = "read_wait"]
            /\ UNCHANGED _lock
    /\ UNCHANGED <<_running, _connected, _subscribed_handlers, _callbacks, con, out,
                   peer, lpc, sawDisconnect>>
    /\ UNCHANGED written
    /\ UNCHANGED lcVars
    /\ UNCHANGED <<devVars, appVars>>

\* bluetooth.py 129-131: char_write(h, v, wait) checks _connected
CallWrite(t, h, v, wait) ==
    /\ pc[t] = "idle"
    /\ LET c == [NoCall EXCEPT !.op = "char_write", !.h = h, !.value = v, !.wait = wait,
                               !.entry = _connected]
       IN  IF RaisesNotConnected
           THEN /\ call' = [call EXCEPT ![t] = [c EXCEPT !.res = "NotConnectedError"]]
                /\ pc' = pc
           ELSE /\ call' = [call EXCEPT ![t] = [c EXCEPT !.res = "running"]]
                /\ pc' = [pc EXCEPT ![t] = "write_send"]
    /\ UNCHANGED <<_running, _connected, _subscribed_handlers, _callbacks, _lock,
                   _connection_lock, con, out, inbox, peer, lpc, sawDisconnect>>
    /\ UNCHANGED written
    /\ UNCHANGED lcVars
    /\ UNCHANGED <<devVars, appVars>>

\* the handle a char_write of the call goes to: unsubscribe writes the control
\* handle, handle + 1 (bluetooth.py 247, 254)
WriteHandle(c) == IF c.op = "unsubscribe" THEN c.h + 1 ELSE c.h

\* bluetooth.py 133-139: the command line is sent, holding no connection lock;
\* without wait_for_response char_write is over
WriteSend(t) ==
    /\ pc[t] = "write_send"
    /\ CanSend
    /\ IF SendlineRaises
       THEN /\ Return(t, "OSError", "none")
            /\ UNCHANGED inbox
       ELSE /\ inbox' = Sendline(Cmd(WriteCommand(call[t].wait), WriteHandle(call[t]),
                                      call[t].value))
            /\ IF call[t].wait
               THEN /\ call' = [call EXCEPT ![t].line = WriteCommand(call[t].wait)]
                    /\ pc' = [pc EXCEPT ![t] = "write_lock"]
                    /\ UNCHANGED <<_lock, _connection_lock>>
               ELSE /\ call' = [call EXCEPT ![t].line = WriteCommand(call[t].wait),
                                            ![t].res = "returned"]
                    /\ pc' = [pc EXCEPT ![t] = "idle"]
                    /\ UNCHANGED <<_lock, _connection_lock>>
    /\ UNCHANGED <<_running, _connected, _subscribed_handlers, _callbacks, con, out,
                   peer, lpc, sawDisconnect>>
    /\ UNCHANGED written
    /\ UNCHANGED lcVars
    /\ UNCHANGED <<devVars, appVars>>

\* bluetooth.py 276: _expect takes _connection_lock
ExpectAcquire(t) ==
    /\ pc[t] = "write_lock"
    /\ _connection_lock = "free"
    /\ _connection_lock' = t
    /\ pc' = [pc EXCEPT ![t] = "write_wait"]
    /\ UNCHANGED <<_running, _connected, _subscribed_handlers, _callbacks, _lock,
                   con, out, inbox, peer, lpc, call, sawDisconnect>>
    /\ UNCHANGED written
    /\ UNCHANGED lcVars
    /\ UNCHANGED <<devVars, appVars>>

\* bluetooth.py 284-299: one wait of the caller's _expect.  The loop goes on
\* only when _handle_notification returns; otherwise the call is left, and an
\* unsubscribe whose write was confirmed records the value (line 255).
ExpectWake(t) ==
    /\ pc[t] \in {"read_wait", "write_wait"}
    /\ LET e == Expect(IF pc[t] = "read_wait" THEN "descriptor" ELSE "written")
           exc == CallerException(call[t].op, e.exc)
       IN  /\ out' = e.rest
           /\ _running' = e.running
           /\ sawDisconnect' = (sawDisconnect \/ e.disc)
           /\ IF e.woke = "notification" /\ e.exc = "none"
              THEN /\ call' = [call EXCEPT ![t].woke = e.woke]
                   /\ UNCHANGED <<pc, _lock, _connection_lock, _subscribed_handlers>>
              ELSE /\ Return(t, IF exc = "none" THEN "returned" ELSE exc, e.woke)
                   /\ _subscribed_handlers' =
                         IF call[t].op = "unsubscribe" /\ exc = "none"
                         THEN [_subscribed_handlers EXCEPT ![call[t].h] = <<0, 0>>]
                         ELSE _subscribed_handlers
    /\ UNCHANGED <<_connected, _callbacks, con, inbox, peer, lpc>>
    /\ UNCHANGED written
    /\ UNCHANGED lcVars
    /\ UNCHANGED <<devVars, appVars>>

\* bluetooth.py 212-221: subscribe(h, cb, type_) raises ValueError for a type_
\* outside {0, 1, 2}; otherwise lines 218-221 evaluate `_type`, a name bound
\* neither in subscribe (its parameter is type_) nor in the module: NameError.
\* Lines 224-232 are never reached.
CallSubscribe(t, h, cb, ty) ==
    /\ pc[t] = "idle"
    /\ call' = [call EXCEPT ![t] =
                  [NoCall EXCEPT !.op = "subscribe", !.h = h, !.cb = cb, !.type_ = ty,
                                 !.entry = _connected,
                                 !.prev = _subscribed_handlers[h],
                                 !.res = IF ty \notin {0, 1, 2} THEN "ValueError"
                                                                ELSE "NameError"]]
    /\ UNCHANGED <<_running, _connected, _subscribed_handlers, _callbacks, _lock,
                   _connection_lock, con, out, inbox, peer, lpc, pc, sawDisconnect>>
    /\ UNCHANGED written
    /\ UNCHANGED lcVars
    /\ UNCHANGED <<devVars, appVars>>

\* bluetooth.py 247-249: unsubscribe(h, cb) goes for _lock
CallUnsubscribe(t, h, cb) ==
    /\ pc[t] = "idle"
    /\ call' = [call EXCEPT ![t] =
                  [NoCall EXCEPT !.op = "unsubscribe", !.h = h, !.cb = cb, !.wait = TRUE,
                                 !.value = <<0, 0>>, !.prev = _subscribed_handlers[h],
                                 !.res = "running"]]
    /\ pc' = [pc EXCEPT ![t] = "unsub_lock"]
    /\ UNCHANGED <<_running, _connected, _subscribed_handlers, _callbacks, _lock,
                   _connection_lock, con, out, inbox, peer, lpc, sawDisconnect>>
    /\ UNCHANGED written
    /\ UNCHANGED lcVars
    /\ UNCHANGED <<devVars, appVars>>

\* bluetooth.py 250-251: self._callbacks[handle].remove(callback); set.remove
\* raises KeyError for an element that is not in the set
RemoveRaises(h, cb) == cb # "None" /\ cb \notin _callbacks[h]

\* bluetooth.py 249-254: under _lock, the callback is removed and, unless the
\* value recorded is already [0, 0], char_write(handle + 1, [0, 0], True) is entered
UnsubscribeLocked(t) ==
    /\ pc[t] = "unsub_lock"
    /\ _lock = "free"
    /\ LET h == call[t].h
           cb == call[t].cb
       IN  IF RemoveRaises(h, cb)
           THEN /\ Return(t, "KeyError", "none")
                /\ UNCHANGED _callbacks
           ELSE /\ _callbacks' = [_callbacks EXCEPT ![h] = @ \ {cb}]
                /\ IF _subscribed_handlers[h] = <<0, 0>>
                   THEN Return(t, "returned", "none")
                   ELSE IF RaisesNotConnected
                   THEN Return(t, "NotConnectedError", "none")
                   ELSE /\ _lock' = t
                        /\ pc' = [pc EXCEPT ![t] = "write_send"]
                        /\ call' = [call EXCEPT ![t].entry = _connected]
                        /\ UNCHANGED _connection_lock
    /\ UNCHANGED <<_running, _connected, _subscribed_handlers, con, out, inbox, peer,
                   lpc, sawDisconnect>>
    /\ UNCHANGED written
    /\ UNCHANGED lcVars
    /\ UNCHANGED <<devVars, appVars>>

----------------------------------------------------------------------------
(* The listener thread, BTLEDevice.run, bluetooth.py 167-177. *)

\* lines 169-170: while self._running: with self._connection_lock:
ListenerLoop ==
    /\ lpc = "loop"
    /\ IF _running
       THEN /\ _connection_lock = "free"
            /\ _connection_lock' = Listener
            /\ lpc' = "wait"
       ELSE /\ lpc' = "done"
            /\ UNCHANGED _connection_lock
    /\ UNCHANGED <<_running, _connected, _subscribed_handlers, _callbacks, _lock,
                   con, out, inbox, peer, pc, call, sawDisconnect>>
    /\ UNCHANGED written
    /\ UNCHANGED lcVars
    /\ UNCHANGED <<devVars, appVars>>

\* a listener that polls again without giving _connection_lock back
ListenerWake_hogging ==
    /\ lpc = "wait"
    /\ LET e == Expect("nonsense")
       IN  /\ out' = e.rest
           /\ _running' = e.running
           /\ sawDisconnect' = (sawDisconnect \/ e.disc)
           /\ IF e.woke = "notification" /\ e.exc = "none"
              THEN UNCHANGED <<lpc, _connection_lock>>
              ELSE /\ _connection_lock' = IF e.exc = "NotificationTimeout" /\ _running
                                          THEN Listener ELSE "free"
                   /\ lpc' = CASE e.exc = "NotificationTimeout" /\ _running -> "wait"
                               [] e.exc \in {"NotificationTimeout", "none"} -> "loop"
                               [] e.exc \in {"NotConnectedError", "EOF"} -> "done"
                               [] OTHER -> "died"
    /\ UNCHANGED <<_connected, _subscribed_handlers, _callbacks, _lock, con, inbox,
                   peer, pc, call>>
    /\ UNCHANGED written
    /\ UNCHANGED lcVars
    /\ UNCHANGED <<devVars, appVars>>

\* a listener whose dispatch waits for _lock, holding _connection_lock
ListenerWake_dispatchLocked ==
    /\ lpc = "wait"
    /\ Expect("nonsense").woke = "notification" => _lock = "free"
    /\ LET e == Expect("nonsense")
       IN  /\ out' = e.rest
           /\ _running' = e.running
           /\ sawDisconnect' = (sawDisconnect \/ e.disc)
           /\ IF e.woke = "notification" /\ e.exc = "none"
              THEN UNCHANGED <<lpc, _connection_lock>>
              ELSE /\ _connection_lock' = "free"
                   /\ lpc' = CASE e.exc \in {"NotificationTimeout", "none"} -> "loop"
                               [] e.exc \in {"NotConnectedError", "EOF"} -> "done"
                               [] OTHER -> "died"
    /\ UNCHANGED <<_connected, _subscribed_handlers, _callbacks, _lock, con, inbox,
                   peer, pc, call>>
    /\ UNCHANGED written
    /\ UNCHANGED lcVars
    /\ UNCHANGED <<devVars, appVars>>

\* lines 171-177: self._expect('nonsense value foobar', timeout=0.1).
\* NotificationTimeout: pass, and the lock is given back for the sleep;
\* NotConnectedError or pexpect.EOF: break; any other exception ends the thread.
ListenerWake ==
    /\ lpc = "wait"
    /\ LET e == Expect("nonsense")
       IN  /\ out' = e.rest
           /\ _running' = e.running
           /\ sawDisconnect' = (sawDisconnect \/ e.disc)
           /\ IF e.woke = "notification" /\ e.exc = "none"
              THEN UNCHANGED <<lpc, _connection_lock>>
              ELSE /\ _connection_lock' = "free"
                   /\ lpc' = CASE e.exc \in {"NotificationTimeout", "none"} -> "loop"
                               [] e.exc \in {"NotConnectedError", "EOF"} -> "done"
                               [] OTHER -> "died"
    /\ UNCHANGED <<_connected, _subscribed_handlers, _callbacks, _lock, con, inbox,
                   peer, pc, call>>
    /\ UNCHANGED written
    /\ UNCHANGED lcVars
    /\ UNCHANGED <<devVars, appVars>>

----------------------------------------------------------------------------
(* BinaryDevice and its subclasses, src/python/train_switch.py.  A hardware *)
(* call is the string of the statement that makes it; None is "None".       *)

\* the classes of CLS_MAP (lines 508-529); a class and its inverted variant
\* differ only in active_high, which .on(), .off() and .value do not show
Classes == {"servo", "relay", "spur", "onoff", "disconnect"}

\* the arguments action() is called with: app.py passes any lower-cased
\* string, utils.py 164 the saved state, which may be None
ActionArgs == {"turn", "straight", "on", "off", "None"}

\* lines 110-124, action_to_angle: the angle of an action; ValueError otherwise
ActionToAngle(a) == CASE a = "turn" -> "100.0" [] a = "straight" -> "180.0"

\* lines 293-308 and 377-392, action_to_conf of the relay classes and of OnOff
ActionToConf(c, a) ==
    IF c \in {"relay", "spur"}
    THEN CASE a = "turn" -> "br" [] a = "straight" -> "yg"
    ELSE CASE a = "off" -> "open" [] a = "on" -> "close"

\* the mapping has the action: no ValueError
ValidAction(c, a) ==
    IF c \in {"servo", "relay", "spur"} THEN a \in {"turn", "straight"}
                                        ELSE a \in {"off", "on"}

\* a SpurTrainSwitch that switches its own relay on before it switches the
\* other one off
ActionCalls_ownFirst(c, a) ==
    CASE c = "servo" -> <<"servo.angle=" \o ActionToAngle(a)>>
      [] c = "relay" ->
            IF ActionToConf(c, a) = "br"
            THEN <<"br_relay.off", "br_relay.on", "br_relay.off">>
            ELSE <<"yg_relay.off", "yg_relay.on", "yg_relay.off">>
      [] c = "spur" ->
            IF ActionToConf(c, a) = "br"
            THEN <<"br_relay.on", "yg_relay.off">>
            ELSE <<"yg_relay.on", "br_relay.off">>
      [] c = "onoff" ->
            IF ActionToConf(c, a) = "open" THEN <<"relay.off">> ELSE <<"relay.on">>
      [] c = "disconnect" ->
            IF ActionToConf(c, a) = "open"
            THEN IF safe_stop # "None" THEN <<"relay.off", "safe_stop.cancel">>
                                       ELSE <<"relay.off">>
            ELSE <<"relay.on", "safe_stop.start">>

\* the hardware calls of _action(a), in order: ServoTrainSwitch 235-238,
\* RelayTrainSwitch 310-327, OnOff 394-402, Disconnect 431-446,
\* SpurTrainSwitch 480-491
ActionCalls(c, a) ==
    CASE c = "servo" -> <<"servo.angle=" \o ActionToAngle(a)>>
      [] c = "relay" ->
            IF ActionToConf(c, a) = "br"
            THEN <<"br_relay.off", "br_relay.on", "br_relay.off">>
            ELSE <<"yg_relay.off", "yg_relay.on", "yg_relay.off">>
      [] c = "spur" ->
            IF ActionToConf(c, a) = "br"
            THEN <<"yg_relay.off", "br_relay.on">>
            ELSE <<"br_relay.off", "yg_relay.on">>
      [] c = "onoff" ->
            IF ActionToConf(c, a) = "open" THEN <<"relay.off">> ELSE <<"relay.on">>
      [] c = "disconnect" ->
            IF ActionToConf(c, a) = "open"
            THEN IF safe_stop # "None" THEN <<"relay.off", "safe_stop.cancel">>
                                       ELSE <<"relay.off">>
            ELSE <<"relay.on", "safe_stop.start">>

\* lines 232-233, 287-290, 372-374, custom_state_setter(state): a falsy state
\* switches the relays off
SetterCalls(c, st) ==
    IF st # "None" THEN <<>>
    ELSE CASE c = "servo" -> <<>>
           [] c \in {"relay", "spur"} -> <<"br_relay.off", "yg_relay.off">>
           [] c \in {"onoff", "disconnect"} -> <<"relay.off">>

\* the outputs and the Timers of the object
Hw == [angle |-> servo_angle, yg |-> yg_relay, br |-> br_relay, relay |-> relay,
       safe_stop |-> safe_stop, orphans |-> orphans]

\* one call applied; a Timer that is started while safe_stop refers to a
\* pending one leaves that one running with no reference to it
ApplyCall(h, c) ==
    CASE c = "servo.angle=100.0" -> [h EXCEPT !.angle = "100.0"]
      [] c = "servo.angle=180.0" -> [h EXCEPT !.angle = "180.0"]
      [] c = "yg_relay.on"       -> [h EXCEPT !.yg = TRUE]
      [] c = "yg_relay.off"      -> [h EXCEPT !.yg = FALSE]
      [] c = "br_relay.on"       -> [h EXCEPT !.br = TRUE]
      [] c = "br_relay.off"      -> [h EXCEPT !.br = FALSE]
      [] c = "relay.on"          -> [h EXCEPT !.relay = TRUE]
      [] c = "relay.off"         -> [h EXCEPT !.relay = FALSE]
      [] c = "safe_stop.cancel"  ->
            [h EXCEPT !.safe_stop = IF @ = "pending" THEN "cancelled" ELSE @]
      [] c = "safe_stop.start"   ->
            [h EXCEPT !.safe_stop = "pending",
                      !.orphans = IF h.safe_stop = "pending" THEN @ + 1 ELSE @]

RECURSIVE ApplyCalls(_, _)
ApplyCalls(h, cs) == IF cs = <<>> THEN h ELSE ApplyCalls(ApplyCall(h, Head(cs)), Tail(cs))

\* the variables take the values of h
HwBecomes(h) ==
    /\ servo_angle' = h.angle
    /\ yg_relay' = h.yg
    /\ br_relay' = h.br
    /\ relay' = h.relay
    /\ safe_stop' = h.safe_stop
    /\ orphans' = h.orphans

\* a device whose action() does not compare the action with the state
Skips_never(a) == FALSE

\* line 139: if self.state == action
Skips(a) == __state = a

\* lines 129-155, BinaryDevice.action(a).  _action raises ValueError for an
\* action the class does not have and GPIODeviceClosed at its first hardware
\* call on a closed device, before anything is changed; the except clause
\* calls self.logger.exception, which raises AttributeError when the logger is
\* None.  self.log (99-107) looks at the logger first.
Action(a) ==
    /\ cls \in Classes
    /\ devOp' = "action"
    /\ devArg' = a
    /\ IF Skips(a)
       THEN /\ devResult' = "skipped"
            /\ acts' = <<>>
            /\ UNCHANGED <<__state, servo_angle, yg_relay, br_relay, relay, safe_stop,
                           orphans>>
       ELSE IF ~ValidAction(cls, a) \/ hwClosed
       THEN /\ devResult' = IF logger THEN "logged" ELSE "AttributeError"
            /\ acts' = <<>>
            /\ UNCHANGED <<__state, servo_angle, yg_relay, br_relay, relay, safe_stop,
                           orphans>>
       ELSE /\ ApplyCalls(Hw, ActionCalls(cls, a)).orphans <= MaxOrphans
            /\ acts' = ActionCalls(cls, a) \o SetterCalls(cls, a)
            /\ HwBecomes(ApplyCalls(Hw, acts'))
            /\ __state' = a
            /\ devResult' = "updated"
    /\ UNCHANGED <<cls, logger, hwClosed>>
    /\ UNCHANGED <<lcVars, btVars, appVars>>

\* app.py 349-356, reset_index: devices[pins].state = None.  The setter
\* (lines 71-74) calls custom_state_setter before it assigns.
ResetState ==
    /\ cls \in Classes
    /\ devOp' = "reset"
    /\ devArg' = "None"
    /\ IF hwClosed /\ SetterCalls(cls, "None") # <<>>
       THEN /\ devResult' = "GPIODeviceClosed"
            /\ acts' = <<>>
            /\ UNCHANGED <<__state, servo_angle, yg_relay, br_relay, relay, safe_stop,
                           orphans>>
       ELSE /\ acts' = SetterCalls(cls, "None")
            /\ HwBecomes(ApplyCalls(Hw, acts'))
            /\ __state' = "None"
            /\ devResult' = "returned"
    /\ UNCHANGED <<cls, logger, hwClosed>>
    /\ UNCHANGED <<lcVars, btVars, appVars>>

\* lines 415-429, Disconnect.safe_close_relay, run by a Timer SAFE_SHUTDOWN
\* seconds after it was started: the one safe_stop refers to or an earlier one.
\* It begins with self.logger.info.
TimerFires ==
    /\ cls = "disconnect"
    /\ \E latest \in BOOLEAN :
          /\ IF latest THEN safe_stop = "pending" ELSE orphans > 0
          /\ LET h == IF latest THEN [Hw EXCEPT !.safe_stop = "fired"]
                                ELSE [Hw EXCEPT !.orphans = @ - 1]
             IN  IF ~logger \/ hwClosed
                 THEN /\ devResult' = IF ~logger THEN "AttributeError" ELSE "GPIODeviceClosed"
                      /\ acts' = <<>>
                      /\ HwBecomes(h)
                      /\ UNCHANGED __state
                 ELSE IF relay
                 THEN /\ acts' = <<"relay.off">> \o SetterCalls(cls, "off")
                      /\ HwBecomes(ApplyCalls(h, acts'))
                      /\ __state' = "off"
                      /\ devResult' = "returned"
                 ELSE /\ acts' = <<>>
                      /\ HwBecomes(h)
                      /\ UNCHANGED __state
                      /\ devResult' = "returned"
    /\ devOp' = "safe_close_relay"
    /\ devArg' = "None"
    /\ UNCHANGED <<cls, logger, hwClosed>>
    /\ UNCHANGED <<lcVars, btVars, appVars>>

\* lines 161-166, close(), which calls __del__ (240-241, 329-331, 404-405;
\* Disconnect 448-450 switches the relay off first).  Closing a closed
\* gpiozero device does nothing; switching it raises.
Close ==
    /\ cls \in Classes
    /\ devOp' = "close"
    /\ devArg' = "None"
    /\ IF cls = "disconnect" /\ hwClosed
       THEN /\ devResult' = "GPIODeviceClosed"
            /\ acts' = <<>>
            /\ UNCHANGED <<relay, hwClosed>>
       ELSE /\ devResult' = "returned"
            /\ acts' = IF cls = "disconnect" THEN <<"relay.off">> ELSE <<>>
            /\ relay' = IF cls = "disconnect" THEN FALSE ELSE relay
            /\ hwClosed' = TRUE
    /\ UNCHANGED <<cls, logger, __state, servo_angle, yg_relay, br_relay, safe_stop,
                   orphans>>
    /\ UNCHANGED <<lcVars, btVars, appVars>>

\* no device is modelled
InitNoSwitch ==
    /\ cls = "none"
    /\ logger = FALSE
    /\ __state = "None"
    /\ servo_angle = "None"
    /\ yg_relay = FALSE
    /\ br_relay = FALSE
    /\ relay = FALSE
    /\ safe_stop = "None"
    /\ orphans = 0
    /\ hwClosed = FALSE
    /\ acts = <<>>
    /\ devOp = "none"
    /\ devArg = "None"
    /\ devResult = "none"

\* lines 24-40 with 174-230, 248-285, 339-370, 410-413: a constructed device
\* of one of the classes, with or without a logger; initial_angle is None and
\* initial_value False
InitSwitch ==
    /\ cls \in Classes
    /\ logger \in BOOLEAN
    /\ __state = "None"
    /\ servo_angle = "None"
    /\ yg_relay = FALSE
    /\ br_relay = FALSE
    /\ relay = FALSE
    /\ safe_stop = "None"
    /\ orphans = 0
    /\ hwClosed = FALSE
    /\ acts = <<>>
    /\ devOp = "none"
    /\ devArg = "None"
    /\ devResult = "none"

----------------------------------------------------------------------------
(* The device registry of the web application: src/app.py with
   src/python/utils.py.  A registered device is kept as its key pins and its
   class; its outputs are the subject of the device layer above. *)

\* utils.py 56-74: the pins of the board that may be used; the first three of
\* the 26
GPIO_PINS == {3, 5, 7}

\* the pin numbers a request may name: the usable ones and one that is not a
\* usable pin of the board
PinInputs == GPIO_PINS \cup {4}

\* the pins strings of the requests, after the split on ',' and int()
PinRequests == UNION {[1..n -> PinInputs] : n \in 1..MaxRequestPins}

\* train_switch.py 508-529: CLS_MAP, for the classes modelled, by the short
\* name a request uses and by the __name__ a saved configuration holds
CLS_MAP ==
    [k \in {"servo", "relay", "spur", "onoff", "disconnect",
            "Servo Train Switch", "Relay Train Switch", "Spur Train Switch",
            "On/Off", "Disconnect"} |->
        CASE k \in {"servo", "Servo Train Switch"} -> "servo"
          [] k \in {"relay", "Relay Train Switch"} -> "relay"
          [] k \in {"spur", "Spur Train Switch"} -> "spur"
          [] k \in {"onoff", "On/Off"} -> "onoff"
          [] OTHER -> "disconnect"]

\* the device_type strings of the requests: a class of one pin, a class of two
\* pins and a string that is no key of CLS_MAP
TypeRequests == {"servo", "relay", "bogus"}

\* train_switch.py 200, 261, 352, 412, 478: __name__ of an object of class c
Name(c) ==
    CASE c = "servo" -> "Servo Train Switch"
      [] c = "relay" -> "Relay Train Switch"
      [] c = "spur" -> "Spur Train Switch"
      [] c = "onoff" -> "On/Off"
      [] OTHER -> "Disconnect"

\* train_switch.py 170, 244, 335: required_pins
required_pins(c) == IF c \in {"relay", "spur"} THEN 2 ELSE 1

\* sorted(): q with x put before the first element larger than x
RECURSIVE InsertSorted(_, _)
InsertSorted(q, x) ==
    IF q = <<>> THEN <<x>>
    ELSE IF x <= Head(q) THEN <<x>> \o q
    ELSE <<Head(q)>> \o InsertSorted(Tail(q), x)

RECURSIVE Sorted(_)
Sorted(q) == IF q = <<>> THEN <<>> ELSE InsertSorted(Sorted(Tail(q)), Head(q))

\* utils.py 227-232: convert_csv_tuples, on the integers of the string: the
\* sorted tuple; train_switch.py 37 sorts the same way
convert_csv_tuples(pins) == Sorted(pins)

\* set(pins)
PinSet(pins) == {pins[k] : k \in DOMAIN pins}

\* app.py 391: the mutation in which availability is not asked
Available_unasked(pins) == TRUE

\* app.py 391: all([p in pin_pool for p in pins])
Available(pins) == \A k \in DOMAIN pins : pins[k] \in pin_pool

\* app.py 391: len(set(pins)) == len(pins)
Distinct(pins) == Cardinality(PinSet(pins)) = Len(pins)

\* the positions of devices that hold key
KeysAt(key) == {k \in DOMAIN devices : devices[k].pins = key}

\* OrderedDict.update({key: d}): in place where the key is held, at the end
\* where not
DictUpdate(ds, d) ==
    IF \E k \in DOMAIN ds : ds[k].pins = d.pins
        THEN [k \in DOMAIN ds |-> IF ds[k].pins = d.pins THEN d ELSE ds[k]]
        ELSE Append(ds, d)

\* OrderedDict.pop(key): the devices without position n
RECURSIVE Without(_, _)
Without(ds, n) ==
    IF ds = <<>> THEN <<>>
    ELSE IF n = 1 THEN Tail(ds)
    ELSE <<Head(ds)>> \o Without(Tail(ds), n - 1)

\* the pins held by the devices ds
HeldPins(ds) == UNION {PinSet(ds[k].pins) : k \in DOMAIN ds}

\* app.py 383-395: post.  An unknown type, an unavailable or a repeated pin
\* returns the unchanged registry; the constructor raises ValueError on a
\* wrong number of pins (train_switch.py 201, 266, 357) before anything is
\* registered; else the device is registered under its sorted pins and each of
\* its pins is removed from the pool, set.remove raising KeyError on a pin that
\* is not in it.
Post(pins, device_type) ==
    /\ appOp' = "post"
    /\ IF device_type \notin DOMAIN CLS_MAP
         THEN /\ appResult' = "unknown type"
              /\ UNCHANGED <<devices, pin_pool>>
         ELSE LET key == convert_csv_tuples(pins)
                  c == CLS_MAP[device_type]
              IN IF ~(Available(key) /\ Distinct(key))
                   THEN /\ appResult' = "refused"
                        /\ UNCHANGED <<devices, pin_pool>>
                   ELSE IF Len(key) # required_pins(c)
                     THEN /\ appResult' = "ValueError"
                          /\ UNCHANGED <<devices, pin_pool>>
                     ELSE /\ devices' = DictUpdate(devices, [pins |-> key, cls |-> c])
                          /\ pin_pool' = pin_pool \ PinSet(key)
                          /\ appResult' = IF PinSet(key) \subseteq pin_pool
                                            THEN "added" ELSE "KeyError"
    /\ UNCHANGED profile
    /\ UNCHANGED <<lcVars, btVars, devVars>>

\* app.py 372-381: delete.  The device under the sorted pins is popped, closed
\* and its pins are put back into the pool; no device under the key changes
\* nothing.
Delete(pins) ==
    /\ appOp' = "delete"
    /\ LET key == convert_csv_tuples(pins)
       IN IF KeysAt(key) = {}
            THEN /\ appResult' = "absent"
                 /\ UNCHANGED <<devices, pin_pool>>
            ELSE /\ devices' = Without(devices, CHOOSE k \in KeysAt(key) : TRUE)
                 /\ pin_pool' = pin_pool \cup PinSet(key)
                 /\ appResult' = "deleted"
    /\ UNCHANGED profile
    /\ UNCHANGED <<lcVars, btVars, devVars>>

\* app.py 304-310 with utils.py 119-124, 143-153 and train_switch.py 84-97:
\* save_json writes the pins and the name of each device, in order
SaveJson ==
    /\ appOp' = "save"
    /\ profile' = [k \in DOMAIN devices |->
                       [pins |-> devices[k].pins, name |-> Name(devices[k].cls)]]
    /\ appResult' = "saved"
    /\ UNCHANGED <<devices, pin_pool>>
    /\ UNCHANGED <<lcVars, btVars, devVars>>

\* utils.py 155-165: construct_from_cfg, one device of the class of its name
\* on its pins for each entry, a later entry of the same pins taking the place
\* of an earlier one
RECURSIVE construct_from_cfg(_)
construct_from_cfg(cfg) ==
    IF cfg = <<>> THEN <<>>
    ELSE LET last == cfg[Len(cfg)]
         IN DictUpdate(construct_from_cfg(SubSeq(cfg, 1, Len(cfg) - 1)),
                       [pins |-> Sorted(last.pins), cls |-> CLS_MAP[last.name]])

\* utils.py 199-209: update_pin_pool.  The usable pins without those of the
\* devices; PinNotInPinPool when a pin is not usable or is held twice.
PinNotInPinPool(ds) ==
    \/ ~(HeldPins(ds) \subseteq GPIO_PINS)
    \/ \E j, k \in DOMAIN ds : j # k /\ PinSet(ds[j].pins) \cap PinSet(ds[k].pins) # {}
    \/ \E k \in DOMAIN ds : ~Distinct(ds[k].pins)

update_pin_pool(ds) == GPIO_PINS \ HeldPins(ds)

\* app.py 313-324: load_json.  No file or an empty configuration changes
\* nothing; else the old devices are closed, the devices of the configuration
\* take their place and the pool is computed anew, devices being assigned
\* before update_pin_pool can raise.
LoadJson ==
    /\ appOp' = "load"
    /\ IF profile = <<>>
         THEN /\ appResult' = "nothing loaded"
              /\ UNCHANGED <<devices, pin_pool>>
         ELSE /\ devices' = construct_from_cfg(profile)
              /\ IF PinNotInPinPool(devices')
                   THEN /\ appResult' = "PinNotInPinPool"
                        /\ UNCHANGED pin_pool
                   ELSE /\ appResult' = "loaded"
                        /\ pin_pool' = update_pin_pool(devices')
    /\ UNCHANGED profile
    /\ UNCHANGED <<lcVars, btVars, devVars>>

\* app.py 26-27: no device is registered, every usable pin is available; no
\* profile has been saved
InitApp ==
    /\ devices = <<>>
    /\ pin_pool = GPIO_PINS
    /\ profile = <<>>
    /\ appOp = "none"
    /\ appResult = "none"

----------------------------------------------------------------------------
(* Spec: one BTLEDevice used by one caller thread. *)

\* bluetooth.py 54-92: __init__; the prompt has been read, the listener started
InitBT ==
    /\ _running = TRUE
    /\ _connected = FALSE
    /\ _subscribed_handlers = [h \in Handles |-> <<>>]
    /\ _callbacks = [h \in Handles |-> {}]
    /\ _lock = "free"
    /\ _connection_lock = "free"
    /\ con = "alive"
    /\ out = <<>>
    /\ inbox = <<>>
    /\ peer = "down"
    /\ lpc = "loop"
    /\ pc = [t \in Callers |-> "idle"]
    /\ call = [t \in Callers |-> NoCall]
    /\ sawDisconnect = FALSE
    /\ written = [h \in Handles |-> <<>>]

CallerStep(t) ==
    \/ CallConnect(t)
    \/ ConnectWait(t)
    \/ ConnectTimeout(t)
    \/ CallStop(t)
    \/ StopClose(t)
    \/ \E h \in Handles : CallRead(t, h)
    \/ ReadLockSend(t)
    \/ \E h \in Handles, v \in WriteValues, w \in BOOLEAN : CallWrite(t, h, v, w)
    \/ WriteSend(t)
    \/ ExpectAcquire(t)
    \/ ExpectWake(t)
    \/ \E h \in Handles, cb \in CallbackArgs, ty \in Types : CallSubscribe(t, h, cb, ty)
    \/ \E h \in Handles, cb \in CallbackArgs : CallUnsubscribe(t, h, cb)
    \/ UnsubscribeLocked(t)

EnvStep ==
    \/ \E say \in BOOLEAN : Gatttool(say)
    \/ \E k \in {"Notification", "Indication"}, h \in Handles : PeerNotifies(k, h)
    \/ PeerDrops
    \/ ProcessDies

BTStep ==
    \/ CallerStep("c1")
    \/ ListenerLoop
    \/ ListenerWake
    \/ EnvStep

Init == InitLC /\ InitBT /\ InitNoSwitch /\ InitApp
Next == BTStep
Spec == Init /\ [][Next]_vars

\* SpecMT: the same BTLEDevice called from two threads.  Each thread makes the
\* calls that use the session (stop() only as part of a timed-out connect);
\* gatttool answers or stays silent and the peer may drop the link.
CallerStepMT(t) ==
    \/ CallConnect(t)
    \/ ConnectWait(t)
    \/ ConnectTimeout(t)
    \/ StopClose(t)
    \/ \E h \in Handles : CallRead(t, h)
    \/ ReadLockSend(t)
    \/ \E h \in Handles, v \in WriteValues, w \in BOOLEAN : CallWrite(t, h, v, w)
    \/ WriteSend(t)
    \/ ExpectAcquire(t)
    \/ ExpectWake(t)
    \/ \E h \in Handles : CallSubscribe(t, h, "None", 0)
    \/ \E h \in Handles : CallUnsubscribe(t, h, "None")
    \/ UnsubscribeLocked(t)

NextMT ==
    \/ \E t \in Callers : CallerStepMT(t)
    \/ ListenerLoop
    \/ ListenerWake
    \/ \E say \in BOOLEAN : Gatttool(say)
    \/ PeerDrops
SpecMT == Init /\ [][NextMT]_vars

\* SpecSet: a LionChief that connects, with no retry or one, and whose
\* setters are called
NextSet ==
    \/ \E n \in {0, 1} : ConnectCall(n)
    \/ ConnectAttempt
    \/ ConnectReturn
    \/ \E name \in Setters : \E a \in SetterArgs(name) : SetterCall(name, a)
    \/ ListenerSeesDisconnect
    \/ ProcessExits
SpecSet == Init /\ [][NextSet]_vars

\* SpecOwn: a LionChief that is connected, used through its setters and
\* closed, while the peer may drop the link and gatttool may exit
NextOwn ==
    \/ \E n \in {0, 1} : ConnectCall(n)
    \/ ConnectAttempt
    \/ ConnectReturn
    \/ \E name \in {"_set_speed", "set_horn", "set_bell_pitch"} :
          \E a \in SetterArgs(name) : SetterCall(name, a)
    \/ CloseCall
    \/ ListenerSeesDisconnect
    \/ ProcessExits
SpecOwn == Init /\ [][NextOwn]_vars

NextLC == LCStep
SpecLC == Init /\ [][NextLC]_vars

NextCmd == SendCmdCall
InitSendCmd == InitCmd /\ InitBT /\ InitNoSwitch /\ InitApp
SpecCmd == InitSendCmd /\ [][NextCmd]_vars

----------------------------------------------------------------------------
(* Claims about BTLEDevice.  A call record with res = "running" is a call    *)
(* in progress; every other res is how the call ended.                      *)

\* the control value of a subscription kind: Notify, Indicate, Both
Encoding(ty) == CASE ty = 0 -> <<1, 0>> [] ty = 1 -> <<2, 0>> [] ty = 2 -> <<3, 0>>
OtherEncoding(ty) == CASE ty = 0 -> <<2, 0>> [] ty = 1 -> <<1, 0>> [] ty = 2 -> <<3, 0>>

\* C4: a subscribe(h, cb, kind) on a connected client issues the confirmed
\* control write exactly when the kind recorded before does not satisfy the
\* request: it writes Both when the other single kind was recorded and the
\* requested kind's encoding otherwise, and writes nothing when the recorded
\* kind is the requested one or Both.
C4_SubscribeMerge ==
    \A t \in Callers :
        LET c == call[t]
        IN  (c.op = "subscribe" /\ c.type_ \in {0, 1, 2} /\ c.entry /\ c.res # "running") =>
                IF c.prev \in {Encoding(c.type_), <<3, 0>>}
                THEN c.line = "none"
                ELSE /\ c.line = "char-write-req"
                     /\ c.value = IF c.prev = OtherEncoding(c.type_) THEN <<3, 0>>
                                                                     ELSE Encoding(c.type_)

\* C5: unsubscribe(h, cb) with a callback that is not registered for h does
\* not raise for it: no unsubscribe ends with the KeyError of a missing element.
C5_UnsubscribeUnregistered ==
    \A t \in Callers :
        (call[t].op = "unsubscribe" /\ call[t].cb # "None") => call[t].res # "KeyError"

\* C6: when the wait of a char_read_hnd or of a confirmed char_write matches a
\* notification or indication line before its response, the call goes on
\* waiting: it has not ended on that line.
C6_NotificationInterleaved ==
    \A t \in Callers :
        (call[t].op \in {"char_read_hnd", "char_write"} /\ call[t].woke = "notification")
            => call[t].res = "running"

\* C7: once a wait has matched a disconnect line, the client is not Connected
\* (until a later connect is confirmed).
C7_DisconnectFlipsState == sawDisconnect => ~_connected

\* C8: whenever a stop() returns, the client is non-running and not Connected.
C8_StopLeavesDisconnected ==
    [][\A t \in Callers :
          (call'[t].op = "stop" /\ call'[t].res = "returned" /\ call'[t] # call[t])
              => (~_running' /\ ~_connected')]_vars

C10_WriteResponse ==
    \A t \in Callers :
        LET c == call[t]
        IN  c.op = "char_write" =>
              /\ c.line \in {"none", IF c.wait THEN "char-write-req" ELSE "char-write-cmd"}
              /\ (c.wait /\ c.woke = "timeout") => c.res = "NoResponseError"
              /\ ~c.wait =>
                    /\ c.woke = "none"
                    /\ pc[t] \notin {"write_lock", "write_wait"}
                    /\ c.line = "char-write-cmd" => c.res = "returned"

\* C10 happens: a confirmed write whose confirmation never came
C10_Witness ==
    \E t \in Callers :
        /\ call[t].op = "char_write" /\ call[t].wait
        /\ call[t].line = "char-write-req"
        /\ call[t].woke = "timeout"
        /\ call[t].res = "NoResponseError"

\* C11: _connected becomes True only in the step in which a connect() matched
\* the success pattern, and a connect() whose wait timed out ends with
\* NotConnectedError, leaving the client not connected.
C11_ConnectOutcome ==
    [][/\ (~_connected /\ _connected') =>
            \E t \in Callers : call'[t].op = "connect" /\ call'[t].woke = "expected"
       /\ \A t \in Callers :
            (/\ call'[t].op = "connect" /\ call'[t].woke = "timeout"
             /\ call[t].res = "running" /\ call'[t].res # "running")
                => (call'[t].res = "NotConnectedError" /\ ~_connected')]_vars


\* caller t has sent a command line whose response it has not finished
\* waiting for (connect 156-157, char_read_hnd 111-112, char_write 137-141)
Outstanding(t) == pc[t] \in {"connect_wait", "read_wait", "write_lock", "write_wait"}

\* C12: whatever the interleaving of the caller threads, at most one of them
\* has a command outstanding on the session.
C12_OneOutstanding == Cardinality({t \in Callers : Outstanding(t)}) <= 1


\* the threads that are inside an expect on the session: a caller in the wait
\* of connect (157), char_read_hnd (112) or a confirmed char_write (141), and
\* the listener in the wait of run (172)
InExpect ==
    {t \in Callers : pc[t] \in {"connect_wait", "read_wait", "write_wait"}}
        \cup (IF lpc = "wait" THEN {Listener} ELSE {})

\* C13: at most one thread is inside an expect on the session; in particular
\* never the listener together with a caller.
C13_OneWaiter == Cardinality(InExpect) <= 1


Kinds(v) ==
    CASE v = <<1, 0>> -> {1}
      [] v = <<2, 0>> -> {2}
      [] v = <<3, 0>> -> {1, 2}
      [] OTHER        -> {}

\* C15: a subscribe(h, cb, kind) made on a connected client merges: when it
\* has ended without NoResponseError, the kinds recorded for h are the kinds
\* recorded before it together with the kinds requested, so none is lost and
\* the other single kind becomes Both.
C15_MergeMonotonic ==
    \A t \in Callers :
        LET c == call[t]
        IN  (/\ c.op = "subscribe" /\ c.type_ \in {0, 1, 2} /\ c.entry
             /\ c.res \notin {"running", "NoResponseError"}) =>
                Kinds(_subscribed_handlers[c.h]) = Kinds(c.prev) \cup Kinds(Encoding(c.type_))


\* C16: a subscribe(h, cb, kind) that has ended leaves cb in the callback set
\* of h and an unsubscribe(h, cb) that has ended leaves it out, whether or not
\* the call wrote; a control write they send is a confirmed one.
C16_CallbackSetUpdated ==
    \A t \in Callers :
        LET c == call[t]
        IN  /\ (c.op = "subscribe" /\ c.type_ \in {0, 1, 2} /\ c.cb # "None" /\ c.res # "running")
                    => c.cb \in _callbacks[c.h]
            /\ (c.op = "unsubscribe" /\ c.cb # "None" /\ c.res # "running")
                    => c.cb \notin _callbacks[c.h]
            /\ (c.op \in {"subscribe", "unsubscribe"}) => c.line \in {"none", "char-write-req"}


----------------------------------------------------------------------------
(* More claims about LionChief. *)

\* the LionChief has no usable connection: it never connected or its retries
\* were exhausted (__connected False), or the session of its device was lost
NotConnectedLC ==
    \/ ~__connected
    \/ ~_blue_connection.exists
    \/ ~_blue_connection.alive
    \/ ~_blue_connection.connected

\* C17: a command setter called while the device is not connected (here the
\* set_bell(True) that opens a ramp) writes nothing and does not raise.
C17_DisconnectedNoOp ==
    [][\A t \in 0..MaxSpeed :
          (NotConnectedLC /\ RampCall(t)) => (lcResult' = "running" /\ writes' = <<>>)]_vars


\* C18: current_speed changes only in a step that sent the speed command for
\* the new value and had it confirmed.
C18_SpeedAfterSend ==
    [][current_speed' # current_speed =>
          /\ Len(writes') = Len(writes) + 1
          /\ writes'[Len(writes')].value = Frame(<<69, current_speed'>>)
          /\ lcResult' \in {"running", "returned"}]_vars


\* C19: a ramp on a connected LionChief that has reached its first _set_speed
\* runs to its end whatever became of its commands: no exception reaches its
\* caller, its last _set_speed is the one for the target and its last command
\* is bell off.
C19_RampSurvivesFailure ==
    (lcOp = "ramp" /\ lcpc = "idle" /\ __connected /\ issued # <<>>) =>
        /\ lcResult = "returned"
        /\ issued[Len(issued)] = end_speed
        /\ writes # <<>> /\ writes[Len(writes)].value = Frame(<<71, 0>>)

\* SpecLCFair: a ramp that can take its next step takes it (the thread is not
\* starved between the statements of lionchief.py 85-93)
SpecLCFair ==
    SpecLC /\ WF_vars(RampStep) /\ WF_vars(RampLast) /\ WF_vars(RampBellOff)

\* the ramp in progress has had its bell-on command confirmed
BellTurnedOn ==
    /\ lcOp = "ramp" /\ lcpc \in {"ramp_loop", "ramp_bell_off"}
    /\ writes # <<>> /\ writes[1].value = Frame(<<71, 1>>)

\* the last command of the ramp last entered is bell off
BellOffSent ==
    lcOp = "ramp" /\ writes # <<>> /\ writes[Len(writes)].value = Frame(<<71, 0>>)

\* C20: whenever a ramp has turned the bell on, it eventually sends bell off.
C20_BellOffEventually == BellTurnedOn ~> BellOffSent


\* C21: in a connect(max_retries = n) at most n attempts are made; once an
\* attempt has succeeded it is the last one made, every attempt before it was
\* reported as a failure, and connect returns leaving the LionChief connected.
C21_StopsAtFirstSuccess ==
    lcOp = "connect" =>
        /\ attempts <= max_retries
        /\ connected => (attempts = reported + 1 /\ _blue_connection.exists)
        /\ ~connected => attempts = reported
        /\ (connected /\ lcpc = "idle") => (lcResult = "returned" /\ __connected)

\* C21 happens: the second attempt of a connect is the first to succeed
C21_Witness ==
    /\ lcOp = "connect" /\ lcpc = "idle" /\ lcResult = "returned"
    /\ connected /\ __connected
    /\ attempts = 2 /\ reported = 1 /\ max_retries = MaxRetries


\* the next line the listener's wait will match is a notification or an
\* indication line
NotificationMatched ==
    LET pos == MatchPos(out, Patterns("nonsense"))
    IN  pos > 0 /\ out[pos].kind \in {"Notification", "Indication"}

\* C22: the listener consumes a notification or indication line without
\* error, whatever callbacks are registered for its handle: its thread is not
\* ended by an exception of the dispatch.
C22_DispatchWithoutError ==
    [][(lpc = "wait" /\ NotificationMatched) => lpc' # "died"]_vars


\* SpecStop: a thread c1 that connects and reads, a thread c2 that calls
\* stop(), the listener, gatttool and the peer.
NextStop ==
    \/ CallConnect("c1")
    \/ ConnectWait("c1")
    \/ ConnectTimeout("c1")
    \/ \E h \in Handles : CallRead("c1", h)
    \/ ReadLockSend("c1")
    \/ ExpectWake("c1")
    \/ CallStop("c2")
    \/ \E t \in Callers : StopClose(t)
    \/ ListenerLoop
    \/ ListenerWake
    \/ EnvStep

\* The threads are scheduled: the listener and a waiting caller take their
\* next step whenever they can (every wait is bounded by its timeout,
\* bluetooth.py 157, 172, 286).
SpecStop ==
    /\ Init /\ [][NextStop]_vars
    /\ WF_vars(ListenerLoop) /\ WF_vars(ListenerWake)
    /\ WF_vars(ConnectWait("c1")) /\ WF_vars(ExpectWake("c1"))

\* the listener thread has left run(): by its loop condition or a break
\* ("done") or by an exception ("died")
ListenerGone == lpc \in {"done", "died"}

\* caller t is inside a wait on the session
InWait(t) == pc[t] \in {"connect_wait", "read_wait", "write_wait"}

\* C23: once stop() has been called, a caller's wait in progress ends, and
\* the listener leaves its loop and never waits on the session again.
C23_StopEndsListener ==
    /\ (call["c2"].op = "stop") ~> [](ListenerGone)
    /\ (call["c2"].op = "stop" /\ InWait("c1")) ~> ~InWait("c1")

\* C23 happens: stop() has closed the session and the listener has left its loop
C23_Witness ==
    /\ call["c2"].op = "stop" /\ call["c2"].res = "returned"
    /\ con = "closed"
    /\ lpc = "done"
    /\ call["c1"].op = "char_read_hnd" /\ call["c1"].woke = "closed"


\* C24: a pitch setter called with an index outside 0..len(PITCHES)-1 logs an
\* error, writes nothing and returns; a pitch setter that wrote was called
\* with an index inside the range.
C24_PitchRange ==
    lcOp \in PitchSetters =>
        IF setterArg \in 0..(Len(PITCHES) - 1)
        THEN reported = 0
        ELSE reported = 1 /\ writes = <<>> /\ lcResult = "returned"

\* C24 happens: a connected LionChief was asked for a pitch index below the range
C24_Witness ==
    /\ lcOp = "set_bell_pitch" /\ setterArg = -1
    /\ __connected /\ _blue_connection.alive
    /\ reported = 1

\* the opcode of each setter: speed 0x45, horn 0x48, bell 0x47, reverse 0x46,
\* speech 0x4D, per-channel volume and pitch 0x44, master volume 0x4C
Opcode(name) ==
    CASE name = "_set_speed"      -> 69
      [] name = "set_horn"        -> 72
      [] name = "set_bell"        -> 71
      [] name = "set_reverse"     -> 70
      [] name = "speak"           -> 77
      [] name = "set_over_volume" -> 76
      [] OTHER                    -> 68

\* the sub-channel byte that follows opcode 0x44: horn 1, bell 2, speech 3, engine 4
SubChannel(name) ==
    CASE name \in {"set_horn_volume", "set_horn_pitch"} -> 1
      [] name \in {"set_bell_volume", "set_bell_pitch"} -> 2
      [] name = "set_speech_volume"                     -> 3
      [] name = "set_engine_volume"                     -> 4

\* C25: what a setter sends is one confirmed write to handle 0x25 of the
\* buffer [0, opcode, payload..., checksum], all bytes, summing to 0 modulo
\* 256, with the opcode of the setter and, after 0x44, its sub-channel byte.
C25_CommandFormat ==
    (lcOp \in Setters /\ writes # <<>>) =>
        /\ Len(writes) = 1
        /\ writes[1].handle = 37
        /\ writes[1].wait
        /\ LET buf == writes[1].value
           IN  /\ Len(buf) >= 4
               /\ IsBytes(buf)
               /\ buf[1] = 0
               /\ SubSeq(buf, 2, Len(buf) - 1) = values
               /\ SumSeq(buf) % 256 = 0
               /\ buf[2] = Opcode(lcOp)
               /\ Opcode(lcOp) = 68 => buf[3] = SubChannel(lcOp)

\* C25 happens: a per-channel command was written and confirmed
C25_Witness ==
    /\ lcOp = "set_engine_volume" /\ setterArg = MaxArg
    /\ writes # <<>> /\ lcResult = "returned"


\* C26: _connected changes only in a step of connect() or of stop(), and it
\* is True only while no disconnect line has been matched since the last
\* successful connect.
C26_ConnectionStateOwners ==
    [][/\ (_connected' # _connected) =>
            \E t \in Callers : /\ pc[t] \in {"connect_wait", "stop_wait"}
                               /\ call[t].op \in {"connect", "stop"}
                               /\ pc'[t] = "idle"
       /\ _connected' => ~sawDisconnect']_vars


\* SpecSession: a LionChief that connects with up to two attempts, next to a
\* BTLEDevice session on which one thread connects and writes while another
\* stops it.
NextSession ==
    \/ \E n \in {1, 2} : ConnectCall(n)
    \/ ConnectAttempt
    \/ ConnectReturn
    \/ CallConnect("c1")
    \/ ConnectWait("c1")
    \/ ConnectTimeout("c1")
    \/ \E h \in Handles, v \in WriteValues : CallWrite("c1", h, v, FALSE)
    \/ WriteSend("c1")
    \/ CallStop("c2")
    \/ \E t \in Callers : StopClose(t)
    \/ ListenerLoop
    \/ ListenerWake
    \/ \E say \in BOOLEAN : Gatttool(say)
    \/ ProcessDies
SpecSession == Init /\ [][NextSession]_vars

\* C27: once stop() has closed the session it stays closed and no command
\* line is sent on it (a call begun on it records no line sent, a call in
\* progress no further one), and each pass of LionChief.connect's loop either fails
\* in the constructor, leaving self._blue_connection as it was, or runs
\* connect() on a BTLEDevice constructed in that pass.
C27_NoReuseAfterTeardown ==
    /\ [][con = "closed" =>
              /\ con' = "closed"
              /\ inbox' = <<>>
              /\ \A t \in Callers :
                    call'[t] # call[t] =>
                        call'[t].line = IF pc[t] = "idle" THEN NoCall.line
                                                           ELSE call[t].line]_vars
    /\ [][(lcpc = "connect_loop" /\ attempts' # attempts) =>
              \/ _blue_connection' = _blue_connection /\ connected' = FALSE
              \/ \E o \in AttemptOutcomes \ {"ctor_TIMEOUT"} :
                     _blue_connection' = AttemptDevice(NewDevice, o)]_vars

\* a connect() was tried on the closed session and raised, and a retry of
\* LionChief.connect has replaced a device that was stopped
C27_Witness ==
    /\ con = "closed"
    /\ call["c1"].op = "connect" /\ call["c1"].res = "OSError"
    /\ attempts = 2 /\ _blue_connection.alive


\* SpecDev: one device of train_switch.py, acted on, reset and closed by the
\* application, with the Timers of a Disconnect
NextDev ==
    \/ \E a \in ActionArgs : Action(a)
    \/ ResetState
    \/ TimerFires
    \/ Close
InitDev == InitLC /\ InitBT /\ InitSwitch /\ InitApp
SpecDev == InitDev /\ [][NextDev]_vars

\* C28: an action(a) entered with a equal to the recorded state makes no
\* hardware call, starts and cancels no Timer and leaves the state as it was;
\* and an action(a) that follows an action(a) with nothing in between changes
\* neither the outputs, the Timers nor the state.
C28_SameActionNoOp ==
    [][\A a \in ActionArgs :
          (Action(a) /\ (__state = a \/ (devOp = "action" /\ devArg = a))) =>
              /\ acts' = <<>>
              /\ UNCHANGED <<__state, servo_angle, yg_relay, br_relay, relay, safe_stop,
                             orphans>>]_vars

\* action('on') repeated on a Disconnect whose relay is on and whose Timer is
\* pending
C28_Witness ==
    /\ cls = "disconnect" /\ devOp = "action" /\ devArg = "on"
    /\ devResult = "skipped"
    /\ relay /\ safe_stop = "pending" /\ __state = "on"


\* the next line a caller's wait for the write confirmation will match is a
\* notification or an indication line
CallerNotificationMatched ==
    LET pos == MatchPos(out, Patterns("written"))
    IN  pos > 0 /\ out[pos].kind \in {"Notification", "Indication"}

\* C29: when the wait of a subscribe or unsubscribe call for its write
\* confirmation matches a notification or indication line, the line is
\* dispatched and the call goes on waiting, still holding _lock: it is not
\* ended by the dispatch.
C29_NotificationDuringControlWrite ==
    [][\A t \in Callers :
          (/\ ExpectWake(t)
           /\ pc[t] = "write_wait"
           /\ call[t].op \in {"subscribe", "unsubscribe"}
           /\ CallerNotificationMatched) =>
              /\ call'[t].res = "running"
              /\ pc'[t] = "write_wait"
              /\ _lock' = t]_vars


\* C30: the caller of an unsubscribe or subscribe that holds _lock and waits
\* for _connection_lock never faces a listener that holds _connection_lock
\* and cannot go on: the listener's wait always ends and gives the lock back.
C30_NoLockCycle ==
    \A t \in Callers :
        ~(/\ _lock = t
          /\ pc[t] = "write_lock"
          /\ _connection_lock = Listener
          /\ lpc = "wait"
          /\ ~ENABLED ListenerWake)

\* an unsubscribe holds _lock and waits for _connection_lock while the listener
\* holds it and the line its wait will match is a notification
C30_Witness ==
    /\ _lock = "c1"
    /\ pc["c1"] = "write_lock"
    /\ call["c1"].op = "unsubscribe"
    /\ _connection_lock = Listener
    /\ lpc = "wait"
    /\ NotificationMatched


\* C31: between calls, a LionChief that reports connected owns a BTLEDevice
\* whose _connected is True and whose listener has seen no disconnect and was
\* not stopped, and no setter ends with NotConnectedError.
C31_ConnectedMeansSession ==
    lcpc = "idle" =>
        /\ __connected => (_blue_connection.connected /\ _blue_connection.running)
        /\ lcOp \in Setters => lcResult # "NotConnectedError"


\* C32: an unsubscribe(h, cb) that has ended on a connected client issued the
\* confirmed write of [0, 0] to h + 1 exactly when the value recorded for h
\* at its entry was not [0, 0], whatever callbacks are registered, and after
\* one that returned the value recorded for h is [0, 0].
C32_UnsubscribeWrites ==
    \A t \in Callers :
        LET c == call[t]
        IN  (c.op = "unsubscribe" /\ c.res # "running" /\ _connected) =>
                /\ IF c.prev = <<0, 0>>
                   THEN c.line = "none"
                   ELSE c.line = "char-write-req" /\ c.value = <<0, 0>>
                /\ c.res = "returned" => _subscribed_handlers[c.h] = <<0, 0>>


\* the line caller t's _expect will match next is a notification or an
\* indication line
WaitMatchesNotification(t) ==
    LET pos == MatchPos(out, Patterns(IF pc[t] = "read_wait" THEN "descriptor" ELSE "written"))
    IN  pos > 0 /\ out[pos].kind \in {"Notification", "Indication"}

\* how a wait may end: the expected line, a disconnect line, the timeout, or
\* the session being closed under it
WaitEndings == {"returned", "NotConnectedError", "NotificationTimeout",
                "NoResponseError", "EOF", "ValueError"}

\* C33: a caller's _expect ends, and each of its wake-ups either matched a
\* notification line, after which the wait goes on, or ends it with the
\* expected line, a disconnect line or the timeout.
C33_WaitTerminates ==
    /\ \A t \in Callers : (pc[t] \in {"read_wait", "write_wait"}) ~> (pc[t] = "idle")
    /\ [][\A t \in Callers :
             ExpectWake(t) =>
                 IF WaitMatchesNotification(t)
                 THEN pc'[t] = pc[t] /\ call'[t].res = "running"
                 ELSE pc'[t] = "idle" /\ call'[t].res \in WaitEndings]_vars


\* SpecPoll: one caller that connects, reads and writes with confirmation
\* next to the polling listener.  The listener sleeps 0.05 s outside the lock
\* after every poll (bluetooth.py 177), so a caller blocked on the lock gets
\* it at one of the listener's releases: strong fairness of the caller's
\* acquisitions.  The threads and gatttool take their steps: weak fairness.
NextPoll ==
    \/ CallConnect("c1")
    \/ ConnectWait("c1")
    \/ ConnectTimeout("c1")
    \/ StopClose("c1")
    \/ \E h \in Handles : CallRead("c1", h)
    \/ ReadLockSend("c1")
    \/ \E h \in Handles, v \in WriteValues : CallWrite("c1", h, v, TRUE)
    \/ WriteSend("c1")
    \/ ExpectAcquire("c1")
    \/ ExpectWake("c1")
    \/ ListenerLoop
    \/ ListenerWake
    \/ EnvStep
SpecPoll ==
    /\ Init /\ [][NextPoll]_vars
    /\ WF_vars(ListenerLoop) /\ WF_vars(ListenerWake)
    /\ WF_vars(\E say \in BOOLEAN : Gatttool(say))
    /\ SF_vars(ReadLockSend("c1")) /\ SF_vars(ExpectAcquire("c1"))

\* caller t has asked for _connection_lock and does not hold it yet
WantsConnectionLock(t) == pc[t] \in {"read_lock", "write_lock"}

\* C34: a caller that asks for _connection_lock for its exchange gets it (or
\* finds the session closed): the listener gives the lock back after every
\* poll and does not keep the caller out for ever.
C34_CallerGetsLock ==
    \A t \in Callers :
        WantsConnectionLock(t) ~> (_connection_lock = t \/ pc[t] = "idle")

\* the caller waits for its answer holding the lock while the listener, still
\* running, is kept out
C34_Witness ==
    /\ pc["c1"] = "read_wait" /\ _connection_lock = "c1"
    /\ lpc = "loop" /\ _running /\ con = "alive"


\* C35: whenever a pass of connect's loop assigns a new BTLEDevice to
\* self._blue_connection (line 45), the session it referred to before, if
\* any, is no longer alive: it was stopped or its process has ended.
C35_OneLiveSession ==
    [][(ConnectAttempt /\ (connected' \/ _blue_connection' # _blue_connection)) =>
          ~(_blue_connection.exists /\ _blue_connection.alive)]_vars


\* SpecApp: the registry of the application under add, delete, save and load
\* requests handled one after the other
NextApp ==
    \/ \E pins \in PinRequests, device_type \in TypeRequests : Post(pins, device_type)
    \/ \E pins \in PinRequests : Delete(pins)
    \/ SaveJson
    \/ LoadJson
SpecApp == Init /\ [][NextApp]_vars

\* an add request that names an unknown type, an unavailable pin or a pin twice
RefusedPost(pins, device_type) ==
    \/ device_type \notin DOMAIN CLS_MAP
    \/ \E k \in DOMAIN pins : pins[k] \notin pin_pool
    \/ \E j, k \in DOMAIN pins : j # k /\ pins[j] = pins[k]

\* C36: after any sequence of add, delete and load requests the pin pool and
\* the pins held by the registered devices are disjoint and together are
\* GPIO_PINS, and no pin is held by two registered devices; an add request
\* that names an unavailable pin, a repeated pin or an unknown device type
\* changes neither the registry nor the pool.
C36_PinPoolPartition ==
    /\ [](/\ pin_pool \cap HeldPins(devices) = {}
          /\ pin_pool \cup HeldPins(devices) = GPIO_PINS
          /\ \A j, k \in DOMAIN devices :
                j # k => PinSet(devices[j].pins) \cap PinSet(devices[k].pins) = {})
    /\ [][\A pins \in PinRequests, device_type \in TypeRequests :
            (Post(pins, device_type) /\ RefusedPost(pins, device_type)) =>
                UNCHANGED <<devices, pin_pool>>]_vars

\* two devices are registered, one of them on two pins, after a saved profile
\* was loaded, and an add request has then been refused
C36_Witness ==
    /\ appOp = "post" /\ appResult = "refused"
    /\ Len(devices) = 2
    /\ \E k \in DOMAIN devices : Len(devices[k].pins) = 2
    /\ profile # <<>>
    /\ pin_pool = {}

\* an action(a) that is not skipped and whose _action raises: a is no action
\* of the class, or the hardware has been closed
ActuationRaises(a) == ~Skips(a) /\ (~ValidAction(cls, a) \/ hwClosed)

\* C37: action records the new state only after the actuation succeeded: an
\* action that is not valid for the device or whose actuation raises leaves
\* the recorded state unchanged and raises nothing to its caller.
C37_FailedActionContained ==
    [][\A a \in ActionArgs :
          (Action(a) /\ ActuationRaises(a)) =>
              /\ __state' = __state
              /\ devResult' = "logged"]_vars

\* SpecDevFair: SpecDev in which a Timer that was started and not cancelled
\* runs its function (threading.Timer, SAFE_SHUTDOWN seconds after start)
SpecDevFair == InitDev /\ [][NextDev]_vars /\ WF_vars(TimerFires)

\* the Disconnect has just been switched on by action('on')
TurnedOn == cls = "disconnect" /\ devOp = "action" /\ devArg = "on" /\ devResult = "updated"

\* C38: a Disconnect that action('on') turned on is turned off again, by a
\* later 'off' action, which cancels the pending Timer, or by the Timer the
\* 'on' action started, which switches the relay off and records 'off'; and
\* between the handlers a recorded state 'on' of a device that has not been
\* closed means the relay is on and a Timer is pending.
C38_DisconnectTurnsOff ==
    /\ TurnedOn ~> ~relay
    /\ [][(Action("off") /\ cls = "disconnect" /\ __state = "on" /\ ~hwClosed) =>
             (~relay' /\ safe_stop' = "cancelled" /\ __state' = "off")]_vars
    /\ [][(TimerFires /\ relay /\ ~hwClosed) => (~relay' /\ __state' = "off")]_vars
    /\ []((cls = "disconnect" /\ __state = "on" /\ ~hwClosed) =>
             (relay /\ safe_stop = "pending"))

\* the outputs after the first n of the calls cs, made from the outputs h
AfterCalls(h, cs, n) == ApplyCalls(h, SubSeq(cs, 1, n))

\* C39: at most one of the two relays of a SpurTrainSwitch is on in every
\* state, after and during any sequence of 'turn', 'straight' and state-reset
\* operations: after each call a handler makes at most one is on, an action
\* switches the other relay off before it switches its own on, and a reset
\* switches both off.
C39_SpurOneRelay ==
    /\ [](cls = "spur" => ~(yg_relay /\ br_relay))
    /\ [][cls = "spur" =>
            /\ \A n \in 0..Len(acts') :
                  ~(AfterCalls(Hw, acts', n).yg /\ AfterCalls(Hw, acts', n).br)
            /\ (Action("turn") /\ devResult' = "updated") =>
                  acts' = <<"yg_relay.off", "br_relay.on">>
            /\ (Action("straight") /\ devResult' = "updated") =>
                  acts' = <<"br_relay.off", "yg_relay.on">>
            /\ (ResetState /\ devResult' = "returned") =>
                  (~yg_relay' /\ ~br_relay')]_vars

\* a spur switch whose br relay is on after a 'turn' that switched the yg
\* relay off first
C39_Witness ==
    /\ cls = "spur"
    /\ devOp = "action" /\ devArg = "turn" /\ devResult = "updated"
    /\ acts = <<"yg_relay.off", "br_relay.on">>
    /\ br_relay /\ ~yg_relay

====
